---- MODULE Spec2Model ----
(***************************************************************************)
(* DNSMon alert engine: the cooldown gate (AlertEngine.try_record_alert    *)
(* with the per-rule lock registry), the per-rule batch pipeline of        *)
(* DNSMonService.ingest_and_alert and the channel fan-out of               *)
(* NotificationService.send_batch_alert.                                   *)
(*                                                                         *)
(* The program is asyncio code: a coroutine runs without interruption      *)
(* between two awaits that really suspend (a storage round trip, a         *)
(* channel send, a wait for a held lock).  Every action below is one such  *)
(* stretch of one coroutine: it starts when the awaited operation          *)
(* answers and ends where the next one is issued.                          *)
(***************************************************************************)
EXTENDS Integers, Sequences, FiniteSets, TLC

\* ---------------------------------------------------------------- bounds
NumRules == 2          \* rule ids 1..NumRules
NumChannels == 2       \* notification channel ids 1..NumChannels
MaxQueries == 2        \* matching queries handed to one pass
MaxTime == 2           \* the clock runs 0..MaxTime (minutes)
MaxSchedRuns == 1      \* runs of the scheduler's ingest_and_alert job
MaxBatches == 3        \* process_rule_batch coroutines started in all
MaxFaults == 1         \* storage errors raised, where the store is flaky
MaxFlakyBatches == 2   \* coroutines started in all, where it is flaky
CooldownMin == 1       \* the positive cooldown_minutes a rule may have

\* AlertEngine._max_locks.  The source sets 1000; the model keeps the
\* registry's logic and scales the capacity down so that it can fill.
max_locks == 1

Rules == 1..NumRules
Channels == 1..NumChannels

\* The two places ingest_and_alert is run from: the task startup() creates
\* (pass 1) and the scheduler job (pass 2).
InitialPass == 1
ScheduledPass == 2
Passes == {InitialPass, ScheduledPass}
\* One process_rule_batch coroutine per entry of matches_by_rule.
Slots == 1..NumRules
Tasks == Passes \X Slots
LockIds == 1..(max_locks + NumRules + 2)

None == 0
\* None in a column or variable that holds an error string.
NoError == [channel |-> 0, kind |-> "none"]
NoTime == 0 - 1
\* The instant written to a channel's last_success_at or last_error_at.  The
\* program only stores and displays these two columns, so the model keeps
\* whether one is set, not which instant it holds.
Stamp(at) == IF at = NoTime THEN NoTime ELSE MaxTime

VARIABLES
    now,         \* datetime.now(timezone.utc), in minutes
    cooldown,    \* alert_rules.cooldown_minutes, by rule id
    enabled,     \* ids of the notification_channels rows with enabled = true
    history,     \* the alert_history table, in id order
    channel,     \* the health columns of notification_channels, by id
    rule_locks,  \* AlertEngine._rule_locks, least recently used first
    locked,      \* asyncio.Lock._locked, by lock instance
    runs,        \* ingest_and_alert runs started, by pass
    budget,      \* what the environment may still do: start so many
                 \* coroutines (batches), raise so many storage errors
    pc,          \* where each process_rule_batch coroutine is suspended
    batch,       \* its arguments (rule_id, queries)
    loc,         \* its local variables
    faults,      \* history variable: the storage errors raised so far
    attempts     \* history variable: per channel, the failed attempts since
                 \* its last successful one (streak); and whether every
                 \* send_batch_alert so far ran alone (serial)


\* The pattern side of the engine: the rules table the evaluation reads, the
\* compiled-pattern cache, and the coroutines that use them.
VARIABLES
    alert_rules,    \* the pattern columns of the alert_rules table, by rule id
    pattern_cache,  \* AlertEngine._pattern_cache, least recently used first
    ev,             \* the evaluate_queries coroutines
    up,             \* the update_alert_rule request handlers
    op,             \* the last call made directly on the cache or the registry
    eval_in,        \* arguments of the pure function under evaluation
    eval_out,       \* what it returned
    query_log,      \* the queries table, in insertion order
    scan            \* the check_recent_queries coroutine

batch_vars == <<now, cooldown, enabled, history, channel, rule_locks, locked,
                runs, budget, pc, batch, loc, faults, attempts>>
engine_vars == <<alert_rules, pattern_cache, ev, up, op, eval_in, eval_out>>
scan_vars == <<query_log, scan>>
vars == <<batch_vars, engine_vars, scan_vars>>

\* No rule is being edited or evaluated, and the cache is empty.
EngineIdle ==
    /\ alert_rules = <<>>
    /\ pattern_cache = <<>>
    /\ ev = <<>>
    /\ up = <<>>
    /\ op = <<>>
    /\ eval_in = <<>>
    /\ eval_out = <<>>
    /\ query_log = <<>>
    /\ scan = <<>>

\* ------------------------------------------------------------ helpers
Min(S) == CHOOSE x \in S : \A y \in S : x <= y

RECURSIVE SortBy(_, _)
\* The elements of the finite set S as a sequence, ascending by key[x].
SortBy(S, key) ==
    IF S = {} THEN <<>>
    ELSE LET x == CHOOSE a \in S : \A b \in S : key[a] <= key[b]
         IN  <<x>> \o SortBy(S \ {x}, key)

\* gate_open is a history variable: whether, when the coroutine started, no
\* history row of its rule lay inside the rule's cooldown window.
NoBatch == [rule_id |-> None, queries |-> <<>>, gate_open |-> FALSE]

NoLoc == [cooldown_minutes |-> 0, cooldown_start |-> NoTime,
          query_id |-> None, rule_lock |-> None, triggered_at |-> NoTime,
          alert_history_id |-> None, channels |-> <<>>, i |-> 0,
          results |-> <<>>, loaded |-> <<>>, objs |-> <<>>,
          \* history variables: the sender.send calls per channel; whether
          \* try_record_alert was called and, if so, whether a history row
          \* lay inside the window then; the first error a channel reported
          sends |-> [c \in Channels |-> 0], call |-> "none",
          first_error |-> NoError]

NewChannel == [last_success_at |-> NoTime, last_error |-> NoError,
               last_error_at |-> NoTime, consecutive_failures |-> 0]

\* ------------------------------------------------ grouping (service.py)
\* The inputs of a pass: `matches` as evaluate_queries returns it, one entry
\* per matching query holding the ids of the rules it matched (never empty).
\* The passes modelled hand in MaxQueries queries that match the same rules.
MatchLists ==
    {[i \in 1..MaxQueries |-> S] : S \in (SUBSET Rules) \ {{}}}

\* matches_by_rule[rule_id]: the queries (by position in matches) of rule_id.
matches_by_rule(matches) ==
    [r \in {x \in Rules : \E i \in 1..Len(matches) : x \in matches[i]} |->
        SelectSeq([i \in 1..Len(matches) |-> i], LAMBDA i : r \in matches[i])]

\* Seeded fault: no grouping, one batch per matching query and rule.
rule_batches_per_query(matches) ==
    LET pairs == {<<i, r>> \in (1..Len(matches)) \X Rules : r \in matches[i]}
        key == [x \in pairs |-> x[1] * (NumRules + 1) + x[2]]
    IN  [k \in 1..Cardinality(pairs) |->
            [rule_id |-> SortBy(pairs, key)[k][2],
             queries |-> <<SortBy(pairs, key)[k][1]>>]]

\* matches_by_rule.items(): a dict keeps insertion order, so the rules come
\* in the order of their first matching query, then in rule order.
rule_batches(matches) ==
    LET by == matches_by_rule(matches)
        key == [r \in DOMAIN by |-> by[r][1] * (NumRules + 1) + r]
    IN  [k \in 1..Cardinality(DOMAIN by) |->
            [rule_id |-> SortBy(DOMAIN by, key)[k],
             queries |-> by[SortBy(DOMAIN by, key)[k]]]]

PassIdle(p) == \A s \in Slots : pc[<<p, s>>] = "idle"

MaxRuns(p) == IF p = InitialPass THEN 1 ELSE MaxSchedRuns

\* Seeded fault: the window is compared with > for >=, so a row exactly
\* cooldown_minutes old no longer closes the gate.
last_alert_strict(rule_id, cooldown_start) ==
    {k \in 1..Len(history) : /\ history[k].alert_rule_id = rule_id
                             /\ history[k].triggered_at > cooldown_start}

\* Seeded fault: only a row whose notification went out closes the gate.
last_alert_notified(rule_id, cooldown_start) ==
    {k \in 1..Len(history) : /\ history[k].alert_rule_id = rule_id
                             /\ history[k].triggered_at >= cooldown_start
                             /\ history[k].notification_sent}

\* select(AlertHistory).where(alert_rule_id == rule_id,
\*                            triggered_at >= cooldown_start).limit(1)
last_alert(rule_id, cooldown_start) ==
    {k \in 1..Len(history) : /\ history[k].alert_rule_id = rule_id
                             /\ history[k].triggered_at >= cooldown_start}

\* No history row of the rule lies inside its cooldown window.
GateOpen(rule_id) ==
    \/ cooldown[rule_id] <= 0
    \/ last_alert(rule_id, now - cooldown[rule_id]) = {}

\* ---------------------------------------------------------------- Init
Init ==
    /\ EngineIdle
    /\ now = 0
    /\ cooldown = [r \in Rules |-> IF r = 1 THEN CooldownMin ELSE 0]
    /\ enabled \in {1..k : k \in 0..NumChannels}
    /\ history = <<>>
    /\ channel = [c \in Channels |-> NewChannel]
    /\ rule_locks = <<>>
    /\ locked = [l \in LockIds |-> FALSE]
    /\ runs = [p \in Passes |-> 0]
    /\ budget = [batches |-> MaxBatches, faults |-> 0]
    /\ pc = [t \in Tasks |-> "idle"]
    /\ batch = [t \in Tasks |-> NoBatch]
    /\ loc = [t \in Tasks |-> NoLoc]
    /\ faults = <<>>
    /\ attempts = [streak |-> [c \in Channels |-> 0], serial |-> TRUE]

\* ------------------------------------------------------------- actions
\* Time passes.
Tick ==
    /\ now < MaxTime
    /\ now' = now + 1
    /\ UNCHANGED <<engine_vars, scan_vars, cooldown, enabled, history, channel, rule_locks, locked,
                   runs, budget, pc, batch, loc, faults, attempts>>

\* ingest_and_alert up to asyncio.gather: the matches are grouped by rule and
\* one process_rule_batch coroutine per rule is started; each runs to its
\* first await, the rule lookup.
StartPass(p, matches) ==
    /\ PassIdle(p)
    /\ runs[p] < MaxRuns(p)
    /\ p = ScheduledPass => runs[InitialPass] = 1
    /\ Len(rule_batches(matches)) <= Cardinality(Slots)
    /\ Len(rule_batches(matches)) <= budget.batches
    /\ runs' = [runs EXCEPT ![p] = @ + 1]
    /\ budget' = [budget EXCEPT !.batches = @ - Len(rule_batches(matches))]
    /\ batch' = [t \in Tasks |->
                    IF t[1] = p /\ t[2] <= Len(rule_batches(matches))
                    THEN [rule_id |-> rule_batches(matches)[t[2]].rule_id,
                          queries |-> rule_batches(matches)[t[2]].queries,
                          gate_open |->
                            GateOpen(rule_batches(matches)[t[2]].rule_id)]
                    ELSE batch[t]]
    /\ pc' = [t \in Tasks |->
                    IF t[1] = p /\ t[2] <= Len(rule_batches(matches))
                    THEN "get_rule" ELSE pc[t]]
    /\ UNCHANGED <<engine_vars, scan_vars, now, cooldown, enabled, history, channel, rule_locks,
                   locked, loc, faults, attempts>>

\* ------------------------------------------------- storage (PostgreSQL)
\* A storage round trip either answers or raises; at most MaxFaults raise.
CanFail == budget.faults > 0
Fault(t, where) ==
    /\ faults' = Append(faults, [task |-> t, run |-> runs[t[1]],
                                 where |-> where])
    /\ budget' = [budget EXCEPT !.faults = @ - 1]
Answer ==
    /\ faults' = faults
    /\ budget' = budget

\* ------------------------------------------------ process_rule_batch
Finish(t, keep) ==
    /\ pc' = [pc EXCEPT ![t] = "done"]
    /\ loc' = [loc EXCEPT ![t] =
                 [NoLoc EXCEPT !.alert_history_id = keep.alert_history_id,
                               !.results = keep.results,
                               !.sends = keep.sends,
                               !.call = keep.call,
                               !.first_error = keep.first_error]]

\* rule = await get_rule_by_id(rule_id), then _is_in_cooldown up to its query.
GetRule(t) ==
    /\ pc[t] = "get_rule"
    /\ \/ /\ Answer
          /\ IF cooldown[batch[t].rule_id] <= 0
             THEN \* _is_in_cooldown returns False without a query
                  /\ pc' = [pc EXCEPT ![t] = "lookup_query_id"]
                  /\ loc' = [loc EXCEPT ![t].cooldown_minutes =
                                            cooldown[batch[t].rule_id]]
             ELSE /\ pc' = [pc EXCEPT ![t] = "is_in_cooldown"]
                  /\ loc' = [loc EXCEPT
                        ![t].cooldown_minutes = cooldown[batch[t].rule_id],
                        ![t].cooldown_start =
                            now - cooldown[batch[t].rule_id]]
       \/ \* the lookup raises: caught and logged by process_rule_batch
          /\ CanFail
          /\ Fault(t, "get_rule")
          /\ Finish(t, loc[t])
    /\ UNCHANGED <<engine_vars, scan_vars, now, cooldown, enabled, history, channel, rule_locks,
                   locked, runs, batch, attempts>>

\* The answer to _is_in_cooldown's query.
IsInCooldown(t) ==
    /\ pc[t] = "is_in_cooldown"
    /\ \/ /\ Answer
          /\ IF last_alert(batch[t].rule_id, loc[t].cooldown_start) # {}
             THEN Finish(t, loc[t])   \* in cooldown, skipping batch
             ELSE /\ pc' = [pc EXCEPT ![t] = "lookup_query_id"]
                  /\ loc' = [loc EXCEPT ![t].cooldown_start = NoTime]
       \/ \* except Exception: assume not in cooldown
          /\ CanFail
          /\ Fault(t, "is_in_cooldown")
          /\ pc' = [pc EXCEPT ![t] = "lookup_query_id"]
          /\ loc' = [loc EXCEPT ![t].cooldown_start = NoTime]
    /\ UNCHANGED <<engine_vars, scan_vars, now, cooldown, enabled, history, channel, rule_locks,
                   locked, runs, batch, attempts>>

\* --------------------------------------------------- _get_rule_lock
HasLock(registry, rule_id) ==
    \E k \in 1..Len(registry) : registry[k].id = rule_id

LockOf(registry, rule_id) ==
    registry[CHOOSE k \in 1..Len(registry) : registry[k].id = rule_id].lock

\* asyncio.Lock(): an instance no one refers to.
NewLock ==
    Min({l \in LockIds :
            /\ ~locked[l]
            /\ \A k \in 1..Len(rule_locks) : rule_locks[k].lock # l
            /\ \A t \in Tasks : loc[t].rule_lock # l})

\* The registry after _get_rule_lock(rule_id).
get_rule_lock_registry(rule_id) ==
    IF HasLock(rule_locks, rule_id)
    THEN \* move_to_end
         SelectSeq(rule_locks, LAMBDA e : e.id # rule_id)
            \o <<[id |-> rule_id, lock |-> LockOf(rule_locks, rule_id)]>>
    ELSE LET added == Append(rule_locks, [id |-> rule_id, lock |-> NewLock])
         IN  IF Len(added) > max_locks
             THEN Tail(added)          \* popitem(last=False)
             ELSE added

\* _get_rule_lock that hands out a new lock on every call.
get_rule_lock_fresh(rule_id) == NewLock

\* The lock _get_rule_lock(rule_id) returns.
get_rule_lock(rule_id) ==
    IF HasLock(rule_locks, rule_id) THEN LockOf(rule_locks, rule_id)
    ELSE NewLock

Waiting(l) == {t \in Tasks : pc[t] = "wait_lock" /\ loc[t].rule_lock = l}

\* Seeded fault: the history check is made whatever cooldown_minutes is.
EnterLockChecked(t, l, query_id, call) ==
    /\ locked' = [locked EXCEPT ![l] = TRUE]
    /\ pc' = [pc EXCEPT ![t] = "tr_select"]
    /\ loc' = [loc EXCEPT
            ![t].rule_lock = l,
            ![t].query_id = query_id,
            ![t].call = call,
            ![t].cooldown_start = now - loc[t].cooldown_minutes]

\* try_record_alert from the acquired lock to its first query: the history
\* check when there is a cooldown, else the insert.
EnterLock(t, l, query_id, call) ==
    /\ locked' = [locked EXCEPT ![l] = TRUE]
    /\ IF loc[t].cooldown_minutes > 0
       THEN /\ pc' = [pc EXCEPT ![t] = "tr_select"]
            /\ loc' = [loc EXCEPT
                    ![t].rule_lock = l,
                    ![t].query_id = query_id,
                    ![t].call = call,
                    ![t].cooldown_start = now - loc[t].cooldown_minutes]
       ELSE /\ pc' = [pc EXCEPT ![t] = "tr_commit"]
            /\ loc' = [loc EXCEPT ![t].rule_lock = l,
                                  ![t].query_id = query_id,
                                  ![t].call = call,
                                  ![t].triggered_at = now]

\* The answer to lookup_query_id (the ingested query's row, or None when the
\* lookup raised: the history row then keeps 0), then try_record_alert:
\* _get_rule_lock and `async with rule_lock`.
LookupQueryId(t, found) ==
    /\ pc[t] = "lookup_query_id"
    /\ IF found THEN Answer
       ELSE CanFail /\ Fault(t, "lookup_query_id")
    /\ rule_locks' = get_rule_lock_registry(batch[t].rule_id)
    /\ LET l == get_rule_lock(batch[t].rule_id)
           query_id == IF found THEN batch[t].queries[1] ELSE 0
           call == IF GateOpen(batch[t].rule_id) THEN "open" ELSE "closed"
       IN  IF ~locked[l] /\ Waiting(l) = {}
           THEN EnterLock(t, l, query_id, call)
           ELSE /\ pc' = [pc EXCEPT ![t] = "wait_lock"]
                /\ loc' = [loc EXCEPT ![t].rule_lock = l,
                                      ![t].query_id = query_id,
                                      ![t].call = call]
                /\ locked' = locked
    /\ UNCHANGED <<engine_vars, scan_vars, now, cooldown, enabled, history, channel, runs,
                   batch, attempts>>

\* A waiter of a released lock acquires it.
WaitLock(t) ==
    /\ pc[t] = "wait_lock"
    /\ ~locked[loc[t].rule_lock]
    /\ EnterLock(t, loc[t].rule_lock, loc[t].query_id, loc[t].call)
    /\ UNCHANGED <<engine_vars, scan_vars, now, cooldown, enabled, history, channel, rule_locks,
                   runs, budget, batch, faults, attempts>>

\* Seeded fault: leaving `async with rule_lock` keeps the lock held.
ReleaseNever(t) == locked' = locked

Release(t) == locked' = [locked EXCEPT ![loc[t].rule_lock] = FALSE]

\* The answer to the history check made under the lock.
TrSelect(t) ==
    /\ pc[t] = "tr_select"
    /\ \/ /\ Answer
          /\ IF last_alert(batch[t].rule_id, loc[t].cooldown_start) # {}
             THEN \* return None: in cooldown
                  /\ Release(t)
                  /\ Finish(t, loc[t])
             ELSE \* session.add(alert_history); commit() flushes the row,
                  \* triggered_at = utcnow()
                  /\ pc' = [pc EXCEPT ![t] = "tr_commit"]
                  /\ loc' = [loc EXCEPT ![t].cooldown_start = NoTime,
                                        ![t].triggered_at = now]
                  /\ locked' = locked
       \/ \* except Exception: return None
          /\ CanFail
          /\ Fault(t, "tr_select")
          /\ Release(t)
          /\ Finish(t, loc[t])
    /\ UNCHANGED <<engine_vars, scan_vars, now, cooldown, enabled, history, channel, rule_locks,
                   runs, batch, attempts>>

\* Seeded fault: the row is stored as already notified.
NewRowSent(t) ==
    [id |-> Len(history) + 1,
     alert_rule_id |-> batch[t].rule_id,
     query_id |-> loc[t].query_id,
     triggered_at |-> loc[t].triggered_at,
     notification_sent |-> TRUE,
     notification_error |-> NoError,
     run |-> <<t[1], runs[t[1]]>>, updates |-> 0]

\* AlertHistory(alert_rule_id=..., query_id=..., notification_sent=False,
\* notification_error=None); run and updates are history variables: the run
\* of ingest_and_alert that stored the row, and the number of times
\* update_alert_status has written it.
NewRow(t) ==
    [id |-> Len(history) + 1,
     alert_rule_id |-> batch[t].rule_id,
     query_id |-> loc[t].query_id,
     triggered_at |-> loc[t].triggered_at,
     notification_sent |-> FALSE,
     notification_error |-> NoError,
     run |-> <<t[1], runs[t[1]]>>, updates |-> 0]

\* The answer to commit() and refresh(): the row is stored and its id
\* returned, the lock released, and send_batch_alert asks for the channels.
TrCommit(t) ==
    /\ pc[t] = "tr_commit"
    /\ Release(t)
    /\ \/ /\ Answer
          /\ history' = Append(history, NewRow(t))
          /\ pc' = [pc EXCEPT ![t] = "sb_select"]
          /\ loc' = [loc EXCEPT ![t] =
                        [NoLoc EXCEPT !.alert_history_id = Len(history) + 1,
                                      !.call = loc[t].call]]
       \/ \* commit() raises: no row; return None
          /\ CanFail
          /\ Fault(t, "tr_commit")
          /\ history' = history
          /\ Finish(t, loc[t])
       \/ \* refresh() raises after the commit: the row stays; return None
          /\ CanFail
          /\ Fault(t, "tr_refresh")
          /\ history' = Append(history, NewRow(t))
          /\ Finish(t, loc[t])
    /\ UNCHANGED <<engine_vars, scan_vars, now, cooldown, enabled, channel, rule_locks, runs,
                   batch, attempts>>

\* ------------------------------------------------- send_batch_alert
Outcomes == {"ok", "failed", "raised"}

\* The error a failed attempt reports: sender.send's error string, or str(e)
\* of the exception raised while rendering or sending.
ErrorOf(c, outcome) == [channel |-> c, kind |-> outcome]

\* Seeded fault: a failure sets consecutive_failures to 1 instead of adding 1.
channel_status_flag(obj, c, outcome, at) ==
    IF outcome = "ok"
    THEN [obj EXCEPT !.last_success_at = Stamp(at),
                     !.last_error = NoError,
                     !.last_error_at = NoTime,
                     !.consecutive_failures = 0]
    ELSE [obj EXCEPT !.last_error = ErrorOf(c, outcome),
                     !.last_error_at = Stamp(at),
                     !.consecutive_failures = 1]

\* The channel object after one attempt (the status update of the try block
\* and the except block).
channel_status(obj, c, outcome, at) ==
    IF outcome = "ok"
    THEN [obj EXCEPT !.last_success_at = Stamp(at),
                     !.last_error = NoError,
                     !.last_error_at = NoTime,
                     !.consecutive_failures = 0]
    ELSE [obj EXCEPT !.last_error = ErrorOf(c, outcome),
                     !.last_error_at = Stamp(at),
                     !.consecutive_failures = @ + 1]

\* results[channel.id] after one attempt.
attempt_result(outcome) == outcome = "ok"

\* The answer to select(NotificationChannel).where(enabled == True): the
\* session loads the enabled channels; the loop reaches its first send.
SbSelect(t) ==
    /\ pc[t] = "sb_select"
    /\ \/ /\ Answer
          /\ pc' = [pc EXCEPT ![t] =
                        IF enabled = {} THEN "sb_commit" ELSE "sb_send"]
          /\ loc' = [loc EXCEPT
                ![t].channels = SortBy(enabled, [c \in enabled |-> c]),
                ![t].i = 1,
                ![t].loaded = [c \in enabled |-> channel[c]],
                ![t].objs = [c \in enabled |-> channel[c]]]
          /\ attempts' = [attempts EXCEPT !.serial =
                @ /\ \A u \in Tasks : pc[u] \notin {"sb_send", "sb_commit"}]
       \/ \* raised out of send_batch_alert: caught by process_rule_batch
          /\ CanFail
          /\ Fault(t, "sb_select")
          /\ Finish(t, loc[t])
          /\ attempts' = attempts
    /\ UNCHANGED <<engine_vars, scan_vars, now, cooldown, enabled, history, channel, rule_locks,
                   locked, runs, batch>>

\* Seeded fault: no except clause around the render and send, so an
\* exception leaves send_batch_alert and ends the batch.
SbSendRaises(t, outcome) ==
    /\ pc[t] = "sb_send"
    /\ LET c == loc[t].channels[loc[t].i]
       IN  /\ loc' = [loc EXCEPT
                ![t].results = [x \in DOMAIN @ \cup {c} |->
                                  IF x = c THEN attempt_result(outcome)
                                  ELSE @[x]],
                ![t].objs = [@ EXCEPT ![c] =
                                channel_status(@, c, outcome, now)],
                ![t].sends = [@ EXCEPT ![c] = @ + 1],
                ![t].first_error =
                    IF outcome # "ok" /\ @ = NoError
                    THEN ErrorOf(c, outcome) ELSE @,
                ![t].i = @ + 1]
           /\ attempts' = [attempts EXCEPT !.streak[c] =
                                IF outcome = "ok" THEN 0 ELSE @ + 1]
           /\ pc' = [pc EXCEPT ![t] =
                        IF outcome = "raised" THEN "done"
                        ELSE IF loc[t].i = Len(loc[t].channels)
                        THEN "sb_commit" ELSE "sb_send"]
    /\ UNCHANGED <<engine_vars, scan_vars, now, cooldown, enabled, history, channel, rule_locks,
                   locked, runs, budget, batch, faults>>

\* One pass of the channel loop: render, truncate, send, record the result
\* and the channel's status on the session's object.
SbSend(t, outcome) ==
    /\ pc[t] = "sb_send"
    /\ LET c == loc[t].channels[loc[t].i]
       IN  /\ loc' = [loc EXCEPT
                ![t].results = [x \in DOMAIN @ \cup {c} |->
                                  IF x = c THEN attempt_result(outcome)
                                  ELSE @[x]],
                ![t].objs = [@ EXCEPT ![c] =
                                channel_status(@, c, outcome, now)],
                ![t].sends = [@ EXCEPT ![c] = @ + 1],
                ![t].first_error =
                    IF outcome # "ok" /\ @ = NoError
                    THEN ErrorOf(c, outcome) ELSE @,
                ![t].i = @ + 1]
           /\ attempts' = [attempts EXCEPT !.streak[c] =
                                IF outcome = "ok" THEN 0 ELSE @ + 1]
           /\ pc' = [pc EXCEPT ![t] =
                        IF loc[t].i = Len(loc[t].channels)
                        THEN "sb_commit" ELSE "sb_send"]
    /\ UNCHANGED <<engine_vars, scan_vars, now, cooldown, enabled, history, channel, rule_locks,
                   locked, runs, budget, batch, faults>>

\* The UPDATE session.commit() issues for one loaded object: the columns
\* whose value differs from the loaded one.
flush(row, loaded, obj) ==
    [f \in DOMAIN row |-> IF obj[f] # loaded[f] THEN obj[f] ELSE row[f]]

\* Seeded fault: all() for any().
all_success(results) == \A c \in DOMAIN results : results[c]

\* any(results.values()) if results else False
any_success(results) == \E c \in DOMAIN results : results[c]

\* Seeded fault: the exception raised out of send_batch_alert is not caught
\* at the rule's boundary; it ends the pass with its coroutines unfinished.
SbCommitUncaught(t) ==
    /\ pc[t] = "sb_commit"
    /\ \/ /\ Answer
          /\ channel' = [c \in Channels |->
                IF c \in DOMAIN loc[t].objs
                THEN flush(channel[c], loc[t].loaded[c], loc[t].objs[c])
                ELSE channel[c]]
          /\ pc' = [pc EXCEPT ![t] = "update_status"]
          /\ loc' = [loc EXCEPT ![t] =
                 [NoLoc EXCEPT !.alert_history_id = loc[t].alert_history_id,
                               !.results = loc[t].results,
                               !.sends = loc[t].sends,
                               !.call = loc[t].call,
                               !.first_error = loc[t].first_error]]
       \/ /\ CanFail
          /\ Fault(t, "sb_commit")
          /\ channel' = channel
          /\ pc' = [u \in Tasks |-> IF u[1] = t[1] THEN "idle" ELSE pc[u]]
          /\ loc' = [u \in Tasks |-> IF u[1] = t[1] THEN NoLoc ELSE loc[u]]
    /\ UNCHANGED <<engine_vars, scan_vars, now, cooldown, enabled, history, rule_locks, locked,
                   runs, batch, attempts>>

\* The answer to send_batch_alert's commit; update_alert_status is called.
SbCommit(t) ==
    /\ pc[t] = "sb_commit"
    /\ \/ /\ Answer
          /\ channel' = [c \in Channels |->
                IF c \in DOMAIN loc[t].objs
                THEN flush(channel[c], loc[t].loaded[c], loc[t].objs[c])
                ELSE channel[c]]
          /\ pc' = [pc EXCEPT ![t] = "update_status"]
          /\ loc' = [loc EXCEPT ![t] =
                 [NoLoc EXCEPT !.alert_history_id = loc[t].alert_history_id,
                               !.results = loc[t].results,
                               !.sends = loc[t].sends,
                               !.call = loc[t].call,
                               !.first_error = loc[t].first_error]]
       \/ \* raised out of send_batch_alert: the status updates are lost
          /\ CanFail
          /\ Fault(t, "sb_commit")
          /\ channel' = channel
          /\ Finish(t, loc[t])
    /\ UNCHANGED <<engine_vars, scan_vars, now, cooldown, enabled, history, rule_locks, locked,
                   runs, batch, attempts>>

\* update_alert_status(alert_history_id, notification_sent, error=None)
update_alert_status(rows, alert_history_id, notification_sent, error) ==
    [k \in 1..Len(rows) |->
        IF rows[k].id = alert_history_id
        THEN [rows[k] EXCEPT !.notification_sent = notification_sent,
                             !.notification_error = error,
                             !.updates = @ + 1]
        ELSE rows[k]]

\* The answer to update_alert_status; process_rule_batch returns.
UpdateStatus(t) ==
    /\ pc[t] = "update_status"
    /\ \/ /\ Answer
          /\ history' = update_alert_status(history,
                            loc[t].alert_history_id,
                            any_success(loc[t].results), NoError)
       \/ \* except Exception: logged
          /\ CanFail
          /\ Fault(t, "update_status")
          /\ history' = history
    /\ Finish(t, loc[t])
    /\ UNCHANGED <<engine_vars, scan_vars, now, cooldown, enabled, channel, rule_locks, locked,
                   runs, batch, attempts>>

\* asyncio.gather returns: every coroutine of the pass has finished.
EndPass(p) ==
    /\ \E s \in Slots : pc[<<p, s>>] # "idle"
    /\ \A s \in Slots : pc[<<p, s>>] \in {"idle", "done"}
    /\ pc' = [t \in Tasks |-> IF t[1] = p THEN "idle" ELSE pc[t]]
    /\ batch' = [t \in Tasks |-> IF t[1] = p THEN NoBatch ELSE batch[t]]
    /\ loc' = [t \in Tasks |-> IF t[1] = p THEN NoLoc ELSE loc[t]]
    /\ UNCHANGED <<engine_vars, scan_vars, now, cooldown, enabled, history, channel, rule_locks,
                   locked, runs, budget, faults, attempts>>

\* A pass that starts when no other pass is running.
StartPassAlone(p, matches) ==
    /\ \A q \in Passes : PassIdle(q)
    /\ StartPass(p, matches)

\* The passes run one after another on a healthy store.
Next ==
    \/ Tick
    \/ \E p \in Passes, m \in MatchLists : StartPassAlone(p, m)
    \/ \E t \in Tasks : GetRule(t)
    \/ \E t \in Tasks : IsInCooldown(t)
    \/ \E t \in Tasks : LookupQueryId(t, TRUE)
    \/ \E t \in Tasks : TrSelect(t)
    \/ \E t \in Tasks : TrCommit(t)
    \/ \E t \in Tasks : SbSelect(t)
    \/ \E t \in Tasks, o \in Outcomes : SbSend(t, o)
    \/ \E t \in Tasks : SbCommit(t)
    \/ \E t \in Tasks : UpdateStatus(t)
    \/ \E p \in Passes : EndPass(p)

Spec == Init /\ [][Next]_vars

\* The same passes on a store that raises up to MaxFaults errors.
InitFlaky ==
    /\ EngineIdle
    /\ now = 0
    /\ cooldown = [r \in Rules |-> IF r = 1 THEN CooldownMin ELSE 0]
    /\ enabled \in {1..k : k \in 0..NumChannels}
    /\ history = <<>>
    /\ channel = [c \in Channels |-> NewChannel]
    /\ rule_locks = <<>>
    /\ locked = [l \in LockIds |-> FALSE]
    /\ runs = [p \in Passes |-> 0]
    /\ budget = [batches |-> MaxFlakyBatches, faults |-> MaxFaults]
    /\ pc = [t \in Tasks |-> "idle"]
    /\ batch = [t \in Tasks |-> NoBatch]
    /\ loc = [t \in Tasks |-> NoLoc]
    /\ faults = <<>>
    /\ attempts = [streak |-> [c \in Channels |-> 0], serial |-> TRUE]

NextFlaky ==
    \/ Tick
    \/ \E p \in Passes, m \in MatchLists : StartPassAlone(p, m)
    \/ \E t \in Tasks : GetRule(t)
    \/ \E t \in Tasks : IsInCooldown(t)
    \/ \E t \in Tasks, found \in BOOLEAN : LookupQueryId(t, found)
    \/ \E t \in Tasks : TrSelect(t)
    \/ \E t \in Tasks : TrCommit(t)
    \/ \E t \in Tasks : SbSelect(t)
    \/ \E t \in Tasks, o \in Outcomes : SbSend(t, o)
    \/ \E t \in Tasks : SbCommit(t)
    \/ \E t \in Tasks : UpdateStatus(t)
    \/ \E p \in Passes : EndPass(p)

SpecFlaky == InitFlaky /\ [][NextFlaky]_vars

\* The flaky store with one channel enabled.
InitBoundary ==
    /\ EngineIdle
    /\ now = 0
    /\ cooldown = [r \in Rules |-> IF r = 1 THEN CooldownMin ELSE 0]
    /\ enabled = {1}
    /\ history = <<>>
    /\ channel = [c \in Channels |-> NewChannel]
    /\ rule_locks = <<>>
    /\ locked = [l \in LockIds |-> FALSE]
    /\ runs = [p \in Passes |-> 0]
    /\ budget = [batches |-> MaxFlakyBatches, faults |-> MaxFaults]
    /\ pc = [t \in Tasks |-> "idle"]
    /\ batch = [t \in Tasks |-> NoBatch]
    /\ loc = [t \in Tasks |-> NoLoc]
    /\ faults = <<>>
    /\ attempts = [streak |-> [c \in Channels |-> 0], serial |-> TRUE]

\* One step of a process_rule_batch coroutine on the flaky store.
Step(t) ==
    \/ GetRule(t)
    \/ IsInCooldown(t)
    \/ \E found \in BOOLEAN : LookupQueryId(t, found)
    \/ TrSelect(t)
    \/ TrCommit(t)
    \/ SbSelect(t)
    \/ \E o \in Outcomes : SbSend(t, o)
    \/ SbCommit(t)
    \/ UpdateStatus(t)

\* The event loop runs every coroutine whose awaited operation has answered,
\* every storage operation and channel send ends (HTTP_TIMEOUT), and gather
\* returns once its coroutines have.
SpecFlakyFair ==
    /\ InitBoundary /\ [][NextFlaky]_vars
    /\ \A t \in Tasks : WF_vars(Step(t))
    /\ \A p \in Passes : WF_vars(EndPass(p))

\* The scheduler's job starts while the initial ingestion still runs, so
\* two coroutines may work on one rule; no channel is enabled.
InitOverlap ==
    /\ EngineIdle
    /\ now = 0
    /\ cooldown = [r \in Rules |-> IF r = 1 THEN CooldownMin ELSE 0]
    /\ enabled = {}
    /\ history = <<>>
    /\ channel = [c \in Channels |-> NewChannel]
    /\ rule_locks = <<>>
    /\ locked = [l \in LockIds |-> FALSE]
    /\ runs = [p \in Passes |-> 0]
    /\ budget = [batches |-> MaxBatches, faults |-> 0]
    /\ pc = [t \in Tasks |-> "idle"]
    /\ batch = [t \in Tasks |-> NoBatch]
    /\ loc = [t \in Tasks |-> NoLoc]
    /\ faults = <<>>
    /\ attempts = [streak |-> [c \in Channels |-> 0], serial |-> TRUE]

NextOverlap ==
    \/ Tick
    \/ \E p \in Passes, m \in MatchLists : StartPass(p, m)
    \/ \E t \in Tasks : GetRule(t)
    \/ \E t \in Tasks : IsInCooldown(t)
    \/ \E t \in Tasks : LookupQueryId(t, TRUE)
    \/ \E t \in Tasks : WaitLock(t)
    \/ \E t \in Tasks : TrSelect(t)
    \/ \E t \in Tasks : TrCommit(t)
    \/ \E t \in Tasks : SbSelect(t)
    \/ \E t \in Tasks : SbCommit(t)
    \/ \E t \in Tasks : UpdateStatus(t)
    \/ \E p \in Passes : EndPass(p)

SpecOverlap == InitOverlap /\ [][NextOverlap]_vars

\* One step of a process_rule_batch coroutine on the healthy store, waiting
\* for a held lock included.
StepOverlap(t) ==
    \/ GetRule(t)
    \/ IsInCooldown(t)
    \/ LookupQueryId(t, TRUE)
    \/ WaitLock(t)
    \/ TrSelect(t)
    \/ TrCommit(t)
    \/ SbSelect(t)
    \/ SbCommit(t)
    \/ UpdateStatus(t)

\* The overlapping passes within one minute.
NextOverlapStill ==
    \/ \E p \in Passes, m \in MatchLists : StartPass(p, m)
    \/ \E t \in Tasks : GetRule(t)
    \/ \E t \in Tasks : IsInCooldown(t)
    \/ \E t \in Tasks : LookupQueryId(t, TRUE)
    \/ \E t \in Tasks : WaitLock(t)
    \/ \E t \in Tasks : TrSelect(t)
    \/ \E t \in Tasks : TrCommit(t)
    \/ \E t \in Tasks : SbSelect(t)
    \/ \E t \in Tasks : SbCommit(t)
    \/ \E t \in Tasks : UpdateStatus(t)
    \/ \E p \in Passes : EndPass(p)

\* The overlapping passes under the event loop's scheduling: a coroutine
\* whose awaited operation has answered, or whose lock is free, runs.
SpecOverlapFair ==
    /\ InitOverlap /\ [][NextOverlapStill]_vars
    /\ \A t \in Tasks : WF_vars(StepOverlap(t))
    /\ \A p \in Passes : WF_vars(EndPass(p))

\* ------------------------------------------------------------ patterns
\* A str is the sequence of its characters; NoValue is Python's None where
\* a str is optional (a NULL column).
NoValue == <<"None">>
\* "not s" for an optional str: None or the empty string.
Falsy(s) == s = NoValue \/ s = <<>>
\* The characters str.strip removes.
Whitespace == {" ", "\t", "\n"}
\* str.lower, on one character of the alphabets used here.
Lower(ch) == CASE ch = "A" -> "a" [] ch = "B" -> "b" [] OTHER -> ch
lower(s) == [k \in 1..Len(s) |-> Lower(s[k])]

RECURSIVE lstrip(_)
lstrip(s) == IF s # <<>> /\ Head(s) \in Whitespace THEN lstrip(Tail(s)) ELSE s
RECURSIVE rstrip(_)
rstrip(s) ==
    IF s # <<>> /\ s[Len(s)] \in Whitespace THEN rstrip(SubSeq(s, 1, Len(s) - 1)) ELSE s
strip(s) == rstrip(lstrip(s))

\* s.split(sep): the pieces between the separators, empty pieces included.
RECURSIVE split(_, _)
split(s, sep) ==
    IF \A k \in 1..Len(s) : s[k] # sep
    THEN <<s>>
    ELSE LET k == Min({j \in 1..Len(s) : s[j] = sep})
         IN <<SubSeq(s, 1, k - 1)>> \o split(SubSeq(s, k + 1, Len(s)), sep)

\* s.count(ch)
count(s, ch) == Cardinality({k \in 1..Len(s) : s[k] = ch})
\* needle in hay
contains(hay, needle) ==
    \E k \in 0..(Len(hay) - Len(needle)) : SubSeq(hay, k + 1, k + Len(needle)) = needle

\* The ReDoS ceilings of _compile_patterns.
MaxWildcards == 10
MaxPatternLen == 1000

\* n wildcards in a row.
Stars(n) == [k \in 1..n |-> "*"]

\* The normalisation that wraps a bare pattern as "pattern*".
normalize_pattern_prefix(pattern) ==
    LET p == strip(pattern)
    IN IF p = <<>> THEN p
       ELSE IF count(p, "*") = 0 /\ count(p, "?") = 0 THEN p \o <<"*">>
       ELSE p

normalize_pattern(pattern) ==
    LET p == strip(pattern)
    IN IF p = <<>> THEN p
       ELSE IF count(p, "*") = 0 /\ count(p, "?") = 0 THEN <<"*">> \o p \o <<"*">>
       ELSE p

\* The translation without re.escape: "." stays the regex dot.
AtomUnescaped(ch) ==
    IF ch = "*" THEN [op |-> "star", ch |-> ""]
    ELSE IF ch = "?" \/ ch = "." THEN [op |-> "dot", ch |-> ""]
    ELSE [op |-> "lit", ch |-> ch]

\* A compiled regex is the sequence of its atoms between ^ and $: after
\* re.escape every character is a literal, then the escaped star becomes
\* ".*?" and the escaped question mark ".".
Atom(ch) ==
    IF ch = "*" THEN [op |-> "star", ch |-> ""]
    ELSE IF ch = "?" THEN [op |-> "dot", ch |-> ""]
    ELSE [op |-> "lit", ch |-> ch]
re_compile(pattern) == [k \in 1..Len(pattern) |-> Atom(pattern[k])]

\* The compilation without the wildcard ceiling.
compile_piece_unchecked(piece) ==
    LET stripped == strip(piece)
    IN IF stripped = <<>> THEN <<>> ELSE <<re_compile(normalize_pattern(stripped))>>

\* The compilation that already skips a pattern at the ceiling.
compile_piece_strict(piece) ==
    LET stripped == strip(piece)
        pattern == normalize_pattern(stripped)
        wildcard_count == count(pattern, "*") + count(pattern, "?")
    IN IF stripped = <<>> THEN <<>>
       ELSE IF wildcard_count >= MaxWildcards THEN <<>>
       ELSE <<re_compile(pattern)>>

\* The first matcher of one comma-separated piece, or none.
compile_piece(piece) ==
    LET stripped == strip(piece)
        pattern == normalize_pattern(stripped)
        wildcard_count == count(pattern, "*") + count(pattern, "?")
    IN IF stripped = <<>> THEN <<>>
       ELSE IF wildcard_count > MaxWildcards THEN <<>>
       ELSE IF Len(pattern) > MaxPatternLen
            THEN <<re_compile(SubSeq(pattern, 1, MaxPatternLen))>>
       ELSE <<re_compile(pattern)>>

RECURSIVE compile_pieces(_)
compile_pieces(pieces) ==
    IF pieces = <<>> THEN <<>>
    ELSE compile_piece(Head(pieces)) \o compile_pieces(Tail(pieces))

compile_patterns(pattern_string) ==
    IF Falsy(pattern_string) THEN <<>> ELSE compile_pieces(split(pattern_string, ","))

\* re.Pattern.fullmatch under re.IGNORECASE, without re.DOTALL.
RECURSIVE fullmatch(_, _)
fullmatch(regex, value) ==
    IF regex = <<>> THEN value = <<>>
    ELSE LET atom == Head(regex)
         IN CASE atom.op = "star" ->
                    \/ fullmatch(Tail(regex), value)
                    \/ value # <<>> /\ Head(value) # "\n" /\ fullmatch(regex, Tail(value))
              [] atom.op = "dot" ->
                    value # <<>> /\ Head(value) # "\n" /\ fullmatch(Tail(regex), Tail(value))
              [] OTHER ->
                    /\ value # <<>>
                    /\ Lower(Head(value)) = Lower(atom.ch)
                    /\ fullmatch(Tail(regex), Tail(value))

\* The compiled triple _get_cached_patterns builds for a rule.
compiled_patterns(rule) ==
    [domain |-> compile_patterns(rule.domain_pattern),
     client_ip |-> compile_patterns(rule.client_ip_pattern),
     client_hostname |-> compile_patterns(rule.client_hostname_pattern)]

\* json.loads of a text whose first character after whitespace is "[": a
\* flat array of string literals without escapes, or a decode error.
RECURSIVE json_items(_, _)
json_items(text, items) ==
    LET s == lstrip(text)
    IN IF s = <<>> \/ Head(s) # "\"" THEN [ok |-> FALSE, items |-> <<>>]
       ELSE LET body == Tail(s)
            IN IF \A k \in 1..Len(body) : body[k] # "\""
               THEN [ok |-> FALSE, items |-> <<>>]
               ELSE LET close == Min({k \in 1..Len(body) : body[k] = "\""})
                        item == SubSeq(body, 1, close - 1)
                        rest == lstrip(SubSeq(body, close + 1, Len(body)))
                    IN IF rest = <<>> THEN [ok |-> FALSE, items |-> <<>>]
                       ELSE IF Head(rest) = "]"
                            THEN [ok |-> lstrip(Tail(rest)) = <<>>,
                                  items |-> Append(items, item)]
                       ELSE IF Head(rest) = ","
                            THEN json_items(Tail(rest), Append(items, item))
                       ELSE [ok |-> FALSE, items |-> <<>>]

json_loads(text) ==
    LET inner == lstrip(Tail(lstrip(text)))
    IN IF inner # <<>> /\ Head(inner) = "]"
       THEN [ok |-> lstrip(Tail(inner)) = <<>>, items |-> <<>>]
       ELSE json_items(inner, <<>>)

\* The excludes list _should_exclude builds from the column.
excludes_of(exclude_domains) ==
    LET stripped == strip(exclude_domains)
    IN IF stripped # <<>> /\ Head(stripped) = "["
       THEN json_loads(exclude_domains)
       ELSE [ok |-> TRUE,
             items |-> SelectSeq([k \in 1..Len(split(exclude_domains, ",")) |->
                                     strip(split(exclude_domains, ",")[k])],
                                 LAMBDA e : e # <<>>)]

\* The exclusion test comparing the characters as they are written.
should_exclude_cased(domain, exclude_domains) ==
    IF Falsy(exclude_domains) THEN FALSE
    ELSE LET excludes == excludes_of(exclude_domains)
         IN /\ excludes.ok
            /\ \E k \in 1..Len(excludes.items) : contains(domain, excludes.items[k])

should_exclude(domain, exclude_domains) ==
    IF Falsy(exclude_domains) THEN FALSE
    ELSE LET excludes == excludes_of(exclude_domains)
         IN /\ excludes.ok
            /\ \E k \in 1..Len(excludes.items) :
                   contains(lower(domain), lower(excludes.items[k]))

\* The field test asking the value to match every matcher of the field.
matches_every_compiled_pattern(value, patterns) ==
    IF patterns = <<>> \/ Falsy(value)
    THEN patterns = <<>>
    ELSE \A k \in 1..Len(patterns) : fullmatch(patterns[k], value)

\* _matches_compiled_patterns that takes a missing value for the empty str.
matches_compiled_patterns_absent(value, patterns) ==
    \/ patterns = <<>>
    \/ \E k \in 1..Len(patterns) :
          fullmatch(patterns[k], IF Falsy(value) THEN <<>> ELSE value)

matches_compiled_patterns(value, patterns) ==
    IF patterns = <<>> \/ Falsy(value)
    THEN patterns = <<>>
    ELSE \E k \in 1..Len(patterns) : fullmatch(patterns[k], value)

\* Whether one rule of the loop of _evaluate_query_against_rules is appended.
rule_matches(query, rule, patterns) ==
    /\ ~should_exclude(query.domain, rule.exclude_domains)
    /\ patterns.domain # <<>> =>
           matches_compiled_patterns(query.domain, patterns.domain)
    /\ patterns.client_ip # <<>> =>
           matches_compiled_patterns(query.client_ip, patterns.client_ip)
    /\ patterns.client_hostname # <<>> =>
           matches_compiled_patterns(query.client_hostname, patterns.client_hostname)

\* cached_patterns is a dict by rule id; every rule of the list has an entry.
evaluate_query_against_rules(query, rules, cached_patterns) ==
    LET matching == SelectSeq(rules,
                        LAMBDA rule : rule_matches(query, rule, cached_patterns[rule.id]))
    IN [k \in 1..Len(matching) |-> matching[k].id]

\* ---------------------------------------------- evaluation, on its own
\* No pass is running and nothing was ever alerted.
BatchIdle ==
    /\ now = 0
    /\ cooldown = [r \in Rules |-> 0]
    /\ enabled = {}
    /\ history = <<>>
    /\ channel = [c \in Channels |-> NewChannel]
    /\ rule_locks = <<>>
    /\ locked = [l \in LockIds |-> FALSE]
    /\ runs = [p \in Passes |-> 0]
    /\ budget = [batches |-> 0, faults |-> 0]
    /\ pc = [t \in Tasks |-> "idle"]
    /\ batch = [t \in Tasks |-> NoBatch]
    /\ loc = [t \in Tasks |-> NoLoc]
    /\ faults = <<>>
    /\ attempts = [streak |-> [c \in Channels |-> 0], serial |-> TRUE]

MaxPatLen == 2      \* characters of a rule's domain_pattern
MaxValueLen == 2    \* characters of a query's domain

\* Every str of at most n characters of the alphabet.
RECURSIVE Strings(_, _)
Strings(alphabet, n) ==
    IF n = 0 THEN {<<>>}
    ELSE LET shorter == Strings(alphabet, n - 1)
         IN shorter \cup {Append(s, ch) : s \in shorter, ch \in alphabet}

\* The rules of the input set: every short domain_pattern, a few lists of
\* two patterns and two fields without a usable pattern; exclude_domains in
\* its comma form and in its legacy JSON form, well formed or not.
RuleInputs ==
    [id : {1},
     domain_pattern : {NoValue} \cup Strings({"a", "B", "*", "?", ","}, MaxPatLen)
                         \cup {<<"?", ",", "B">>, <<"a", ",", " ", "b", "b">>,
                               <<"a", "*", "b">>, Stars(MaxWildcards + 1),
                               <<" ", ",">> \o Stars(MaxWildcards + 1)},
     client_ip_pattern : {NoValue, <<"1">>, <<"*">>},
     client_hostname_pattern : {NoValue, <<"a">>, <<"*">>},
     exclude_domains :
        {NoValue, <<>>, <<"a">>, <<"B">>, <<"a", "b">>, <<" ", "a", " ", ",">>,
         <<"[", "]">>,
         <<"[", "\"", "A", "\"", "]">>,
         <<"[", "\"", "b", "\"", ",", " ", "\"", "a", "a", "\"", "]">>,
         <<"[", "\"", "\"", "]">>,
         <<"[", "\"", "a", "\"">>}]
\* The queries: Query.client_hostname is nullable, and ingestion stores ""
\* for a client without a name.
QueryInputs ==
    [domain : Strings({"a", "A", "b"}, MaxValueLen),
     client_ip : {<<"1">>, <<"2">>},
     client_hostname : {NoValue, <<>>, <<"a">>, <<"b">>}]

InitMatch ==
    /\ BatchIdle
    /\ alert_rules = <<>>
    /\ pattern_cache = <<>>
    /\ ev = <<>>
    /\ up = <<>>
    /\ op = <<>>
    /\ eval_in \in [query : QueryInputs, rules : {<<rule>> : rule \in RuleInputs}]
    /\ eval_out = [returned |-> FALSE, matching_rules |-> <<>>]
    /\ query_log = <<>>
    /\ scan = <<>>

\* evaluate_queries with one query, the cache empty: the triple of every
\* rule is compiled from the rule, then the query is evaluated.
EvaluateQuery ==
    /\ ~eval_out.returned
    /\ LET rules == eval_in.rules
           cached_patterns == [id \in {rules[k].id : k \in 1..Len(rules)} |->
               compiled_patterns(CHOOSE rule \in {rules[k] : k \in 1..Len(rules)} :
                                     rule.id = id)]
       IN eval_out' = [returned |-> TRUE,
                       matching_rules |->
                           evaluate_query_against_rules(eval_in.query, rules, cached_patterns)]
    /\ UNCHANGED <<batch_vars, scan_vars, alert_rules, pattern_cache, ev, up, op, eval_in>>

NextMatch == EvaluateQuery

SpecMatch == InitMatch /\ [][NextMatch]_vars

\* ------------------------------------------- the compiled-pattern cache
\* AlertEngine._max_pattern_cache.  The source sets 500; the model keeps the
\* cache's logic and scales the capacity down so that it can fill.
max_pattern_cache == 3

HasEntry(cache, rule_id) == \E k \in 1..Len(cache) : cache[k].id = rule_id
EntryOf(cache, rule_id) ==
    cache[CHOOSE k \in 1..Len(cache) : cache[k].id = rule_id].patterns

\* _get_cached_patterns that leaves a hit entry where it is.
get_cached_patterns_unmoved(rule) ==
    IF HasEntry(pattern_cache, rule.id) THEN pattern_cache
    ELSE LET added == Append(pattern_cache,
                             [id |-> rule.id, patterns |-> compiled_patterns(rule)])
         IN  IF Len(added) > max_pattern_cache THEN Tail(added) ELSE added

\* _get_cached_patterns that never evicts.
get_cached_patterns_unbounded(rule) ==
    IF HasEntry(pattern_cache, rule.id)
    THEN SelectSeq(pattern_cache, LAMBDA e : e.id # rule.id)
            \o <<[id |-> rule.id, patterns |-> EntryOf(pattern_cache, rule.id)]>>
    ELSE Append(pattern_cache, [id |-> rule.id, patterns |-> compiled_patterns(rule)])

\* The cache after _get_cached_patterns(rule).
get_cached_patterns_cache(rule) ==
    IF HasEntry(pattern_cache, rule.id)
    THEN \* move_to_end
         SelectSeq(pattern_cache, LAMBDA e : e.id # rule.id)
            \o <<[id |-> rule.id, patterns |-> EntryOf(pattern_cache, rule.id)]>>
    ELSE LET added == Append(pattern_cache,
                             [id |-> rule.id, patterns |-> compiled_patterns(rule)])
         IN  IF Len(added) > max_pattern_cache
             THEN Tail(added)          \* popitem(last=False)
             ELSE added

\* The triple _get_cached_patterns(rule) returns.
get_cached_patterns(rule) ==
    IF HasEntry(pattern_cache, rule.id) THEN EntryOf(pattern_cache, rule.id)
    ELSE compiled_patterns(rule)

\* invalidate_cache that keeps the entry it is asked to drop.
invalidate_cache_kept(rule_id) ==
    IF rule_id = None THEN <<>> ELSE pattern_cache

\* invalidate_cache that always clears.
invalidate_cache_cleared(rule_id) == <<>>

\* The cache after invalidate_cache(rule_id).
invalidate_cache(rule_id) ==
    IF rule_id = None THEN <<>>
    ELSE SelectSeq(pattern_cache, LAMBDA e : e.id # rule_id)

\* The ids direct calls are made with: one more than fits.
CacheIds == 1..(max_pattern_cache + 1)
RegistryIds == 1..(max_locks + 1)
\* A rule as passed to the cache: its id and pattern columns.
RuleOf(id, domain_pattern) ==
    [id |-> id, domain_pattern |-> domain_pattern, client_ip_pattern |-> NoValue,
     client_hostname_pattern |-> NoValue, exclude_domains |-> NoValue, enabled |-> TRUE]
PatternEdits == {<<"a">>, <<"b">>}

NoPatterns == [domain |-> <<>>, client_ip |-> <<>>, client_hostname |-> <<>>]
\* op before any call.  hit: the id was present; evicted: the id the call
\* pushed out, if any; dropped: what the invalidation just before removed
\* (the id None for a call that did not follow one).
NoDrop == [id |-> None, patterns |-> NoPatterns]
NoOp ==
    [name |-> "none", rule |-> RuleOf(None, NoValue), hit |-> FALSE,
     patterns |-> NoPatterns, lock |-> None, evicted |-> None, dropped |-> NoDrop]
\* The id in before and not in after, or None.
Evicted(before, after, rule_id) ==
    LET gone == {before[k].id : k \in 1..Len(before)}
                    \ ({after[k].id : k \in 1..Len(after)} \cup {rule_id})
    IN IF gone = {} THEN None ELSE CHOOSE id \in gone : TRUE

InitCache ==
    /\ BatchIdle
    /\ alert_rules = <<>>
    /\ pattern_cache = <<>>
    /\ ev = <<>>
    /\ up = <<>>
    /\ op = NoOp
    /\ eval_in = <<>>
    /\ eval_out = <<>>
    /\ query_log = <<>>
    /\ scan = <<>>

\* await _get_cached_patterns(rule)
CacheGet(rule) ==
    /\ pattern_cache' = get_cached_patterns_cache(rule)
    /\ op' = [NoOp EXCEPT
            !.name = "get", !.rule = rule,
            !.hit = HasEntry(pattern_cache, rule.id),
            !.patterns = get_cached_patterns(rule),
            !.evicted = Evicted(pattern_cache, pattern_cache', rule.id),
            !.dropped = IF op.name = "invalidate" /\ op.rule.id = rule.id
                        THEN op.dropped ELSE NoDrop]
    /\ UNCHANGED <<batch_vars, scan_vars, alert_rules, ev, up, eval_in, eval_out>>

\* await invalidate_cache(rule_id); rule_id is None in shutdown().
Invalidate(rule_id) ==
    /\ pattern_cache' = invalidate_cache(rule_id)
    /\ op' = [NoOp EXCEPT
            !.name = "invalidate", !.rule = RuleOf(rule_id, NoValue),
            !.dropped = IF rule_id # None /\ HasEntry(pattern_cache, rule_id)
                        THEN [id |-> rule_id, patterns |-> EntryOf(pattern_cache, rule_id)]
                        ELSE NoDrop]
    /\ UNCHANGED <<batch_vars, scan_vars, alert_rules, ev, up, eval_in, eval_out>>

\* await _get_rule_lock(rule_id)
GetRuleLock(rule_id) ==
    /\ rule_locks' = get_rule_lock_registry(rule_id)
    /\ op' = [NoOp EXCEPT
            !.name = "get_or_create", !.rule = RuleOf(rule_id, NoValue),
            !.hit = HasLock(rule_locks, rule_id),
            !.lock = get_rule_lock(rule_id),
            !.evicted = Evicted(rule_locks, rule_locks', rule_id)]
    /\ UNCHANGED <<now, cooldown, enabled, history, channel, locked, runs, budget,
                   pc, batch, loc, faults, attempts>>
    /\ UNCHANGED <<scan_vars, alert_rules, pattern_cache, ev, up, eval_in, eval_out>>

NextCache ==
    \/ \E id \in CacheIds, p \in PatternEdits : CacheGet(RuleOf(id, p))
    \/ \E id \in CacheIds \cup {None} : Invalidate(id)
    \/ \E id \in RegistryIds : GetRuleLock(id)

SpecCache == InitCache /\ [][NextCache]_vars

\* ------------------------------------- a rule edit against evaluation
NumEvaluators == 2   \* evaluate_queries coroutines
MaxEdits == 1        \* update_alert_rule requests served
Evaluators == 1..NumEvaluators
\* The cap on the matches one evaluate_queries call collects, scaled down:
\* the source has 1000.
max_matches == 2

\* The cache and the fetched triples after the loop of evaluate_queries over
\* the loaded rules: one _get_cached_patterns per rule, in list order.
RECURSIVE fetch_patterns(_, _, _)
fetch_patterns(rules, cache, cached_patterns) ==
    IF rules = <<>> THEN [cache |-> cache, cached_patterns |-> cached_patterns]
    ELSE LET rule == Head(rules)
             hit == HasEntry(cache, rule.id)
             patterns == IF hit THEN EntryOf(cache, rule.id) ELSE compiled_patterns(rule)
             moved == SelectSeq(cache, LAMBDA e : e.id # rule.id)
                         \o <<[id |-> rule.id, patterns |-> patterns]>>
             kept == IF Len(moved) > max_pattern_cache THEN Tail(moved) ELSE moved
         IN fetch_patterns(Tail(rules), kept,
                           [id \in DOMAIN cached_patterns \cup {rule.id} |->
                               IF id = rule.id THEN patterns ELSE cached_patterns[id]])

\* The loop over the queries without the test of max_matches.
RECURSIVE collect_matches_uncapped(_, _, _, _)
collect_matches_uncapped(queries, rules, cached_patterns, matches) ==
    IF queries = <<>> THEN matches
    ELSE LET rule_ids == evaluate_query_against_rules(Head(queries), rules, cached_patterns)
         IN collect_matches_uncapped(Tail(queries), rules, cached_patterns,
                IF rule_ids # <<>> THEN Append(matches, <<Head(queries), rule_ids>>)
                ELSE matches)

\* The matches list of evaluate_queries: (query, rule_ids) for every query
\* with a matching rule, up to max_matches of them.
RECURSIVE collect_matches(_, _, _, _)
collect_matches(queries, rules, cached_patterns, matches) ==
    IF queries = <<>> \/ Len(matches) >= max_matches THEN matches
    ELSE LET rule_ids == evaluate_query_against_rules(Head(queries), rules, cached_patterns)
         IN collect_matches(Tail(queries), rules, cached_patterns,
                IF rule_ids # <<>> THEN Append(matches, <<Head(queries), rule_ids>>)
                ELSE matches)

\* The one query the passes evaluate: its domain matches the pattern "a".
IngestedQuery == [domain |-> <<"a">>, client_ip |-> <<"1">>, client_hostname |-> NoValue]

\* An evaluate_queries coroutine that has not been called.  idle_at_start and
\* stale are history: the number of edits served when the call began (NoTime
\* if an edit was then under way), and whether the call, begun and answered
\* with no edit under way and none served in between, was handed a triple
\* that is not the compilation of the committed rule.
NoEval ==
    [pc |-> "idle", queries |-> <<>>, rules |-> <<>>, cached_patterns |-> <<>>,
     matches |-> <<>>, idle_at_start |-> NoTime, stale |-> FALSE]
NoEdit == [pc |-> "idle", rule_id |-> None, domain_pattern |-> NoValue, edits |-> 0]

InitEdit ==
    /\ BatchIdle
    /\ alert_rules = [r \in Rules |-> RuleOf(r, <<"a">>)]
    /\ pattern_cache = <<>>
    /\ ev = [e \in Evaluators |-> NoEval]
    /\ up = NoEdit
    /\ op = NoOp
    /\ eval_in = <<>>
    /\ eval_out = <<>>
    /\ query_log = <<>>
    /\ scan = <<>>

\* evaluate_queries(queries) up to the rules SELECT it awaits; without
\* queries it returns at once.
EvStart(e, queries) ==
    /\ ev[e].pc = "idle"
    /\ ev' = [ev EXCEPT ![e] = [NoEval EXCEPT
            !.pc = IF queries = <<>> THEN "done" ELSE "select",
            !.queries = queries,
            !.idle_at_start = IF up.pc = "idle" THEN up.edits ELSE NoTime]]
    /\ UNCHANGED <<batch_vars, scan_vars, alert_rules, pattern_cache, up, op, eval_in, eval_out>>

\* The store executes the SELECT: the enabled rules as committed now.
EvRead(e) ==
    /\ ev[e].pc = "select"
    /\ ev' = [ev EXCEPT ![e].pc = "answer",
                        ![e].rules = SelectSeq([r \in Rules |-> alert_rules[r]],
                                               LAMBDA rule : rule.enabled)]
    /\ UNCHANGED <<batch_vars, scan_vars, alert_rules, pattern_cache, up, op, eval_in, eval_out>>

\* The answer arrives: the triples are fetched through the cache and every
\* query is evaluated, without a suspension in between.
EvAnswer(e) ==
    /\ ev[e].pc = "answer"
    /\ LET rules == ev[e].rules
           fetched == fetch_patterns(rules, pattern_cache, <<>>)
           cached_patterns == fetched.cached_patterns
       IN IF rules = <<>>
          THEN /\ ev' = [ev EXCEPT ![e].pc = "done"]
               /\ UNCHANGED pattern_cache
          ELSE /\ pattern_cache' = fetched.cache
               /\ ev' = [ev EXCEPT
                      ![e].pc = "done",
                      ![e].cached_patterns = cached_patterns,
                      ![e].matches = collect_matches(ev[e].queries, rules,
                                                     cached_patterns, <<>>),
                      ![e].stale =
                          /\ up.pc = "idle" /\ ev[e].idle_at_start = up.edits
                          /\ \E id \in DOMAIN cached_patterns :
                                 cached_patterns[id] # compiled_patterns(alert_rules[id])]
    /\ UNCHANGED <<batch_vars, scan_vars, alert_rules, up, op, eval_in, eval_out>>

\* PUT /{rule_id}: the handler up to the SELECT of the rule.
UpBegin(rule_id, domain_pattern) ==
    /\ up.pc = "idle" /\ up.edits < MaxEdits
    /\ up' = [up EXCEPT !.pc = "select", !.rule_id = rule_id,
                        !.domain_pattern = domain_pattern]
    /\ UNCHANGED <<batch_vars, scan_vars, alert_rules, pattern_cache, ev, op, eval_in, eval_out>>

\* The rule is found, its attributes are set and the commit is issued.
UpSelected ==
    /\ up.pc = "select"
    /\ up' = [up EXCEPT !.pc = "commit"]
    /\ UNCHANGED <<batch_vars, scan_vars, alert_rules, pattern_cache, ev, op, eval_in, eval_out>>

\* The store commits the UPDATE.
UpCommit ==
    /\ up.pc = "commit"
    /\ alert_rules' = [alert_rules EXCEPT ![up.rule_id].domain_pattern = up.domain_pattern]
    /\ up' = [up EXCEPT !.pc = "committed"]
    /\ UNCHANGED <<batch_vars, scan_vars, pattern_cache, ev, op, eval_in, eval_out>>

\* The commit is answered and db.refresh is issued.
UpRefresh ==
    /\ up.pc = "committed"
    /\ up' = [up EXCEPT !.pc = "refresh"]
    /\ UNCHANGED <<batch_vars, scan_vars, alert_rules, pattern_cache, ev, op, eval_in, eval_out>>

\* The refresh is answered: invalidate_cache(rule_id), and the response.
UpInvalidate ==
    /\ up.pc = "refresh"
    /\ pattern_cache' = invalidate_cache(up.rule_id)
    /\ up' = [NoEdit EXCEPT !.edits = up.edits + 1]
    /\ UNCHANGED <<batch_vars, scan_vars, alert_rules, ev, op, eval_in, eval_out>>

NextEdit ==
    \/ \E e \in Evaluators, queries \in {<<>>, <<IngestedQuery>>} : EvStart(e, queries)
    \/ \E e \in Evaluators : EvRead(e)
    \/ \E e \in Evaluators : EvAnswer(e)
    \/ \E rule_id \in Rules, p \in PatternEdits : UpBegin(rule_id, p)
    \/ UpSelected
    \/ UpCommit
    \/ UpRefresh
    \/ UpInvalidate

SpecEdit == InitEdit /\ [][NextEdit]_vars

\* ------------------------------------------ pure functions, on inputs
MaxCompileLen == 3   \* characters of a pattern string and of a value

\* One field's pattern string and one value: every short string, and fields
\* with a pattern at and over the wildcard ceiling, alone or beside another.
CompileInputs ==
    [fn : {"compile"},
     pattern_string :
        Strings({"a", "B", "*", "?", ".", " ", ","}, MaxCompileLen)
        \cup {Stars(MaxWildcards), Stars(MaxWildcards + 1),
              Stars(MaxWildcards - 1) \o <<"?">>, Stars(MaxWildcards) \o <<"?">>,
              Stars(MaxWildcards + 1) \o <<",", "a">>,
              <<"b", ",">> \o Stars(MaxWildcards + 1)},
     value : Strings({"a", "A", "b", ".", " "}, MaxCompileLen)]

\* sep.join(pieces)
RECURSIVE join(_, _)
join(pieces, sep) ==
    IF pieces = <<>> THEN <<>>
    ELSE IF Len(pieces) = 1 THEN pieces[1]
    ELSE pieces[1] \o sep \o join(Tail(pieces), sep)
\* A list of exclusion terms written as exclude_domains: the comma form, the
\* legacy form json.dumps gives, and the legacy form cut before its "]".
CommaForm(terms) == join(terms, <<",">>)
JsonForm(terms) ==
    <<"[">> \o join([k \in 1..Len(terms) |-> <<"\"">> \o terms[k] \o <<"\"">>], <<",", " ">>)
        \o <<"]">>
CutJsonForm(terms) == SubSeq(JsonForm(terms), 1, Len(JsonForm(terms)) - 1)

MaxTerms == 2      \* exclusion terms of a list
MaxTermLen == 2    \* characters of a term
\* Lists of terms, and a domain to test.
ExcludeInputs ==
    [fn : {"exclude"},
     terms : UNION {[1..n -> Strings({"a", "B", " "}, MaxTermLen)] : n \in 0..MaxTerms},
     domain : Strings({"a", "A", "b"}, MaxValueLen)]

\* MESSAGE_LIMITS, scaled down (the source has 4096, 2000, 1024, 4096 and
\* None) so that a message can be longer than a limit; a type that is not a
\* key has no limit either.
MESSAGE_LIMITS ==
    [telegram |-> 18, discord |-> 17, pushover |-> 16, ntfy |-> 18, webhook |-> None]
limit_of(channel_type) ==
    IF channel_type \in DOMAIN MESSAGE_LIMITS THEN MESSAGE_LIMITS[channel_type] ELSE None
\* "... [truncated]", and the number of characters the code makes room for.
TruncationMarker ==
    <<".", ".", ".", " ", "[", "t", "r", "u", "n", "c", "a", "t", "e", "d", "]">>
MarkerRoom == 15

\* The truncation that cuts at the limit and then appends the marker.
truncate_message_at_limit(message, channel_type) ==
    LET limit == limit_of(channel_type)
    IN IF limit # None /\ Len(message) > limit
       THEN SubSeq(message, 1, limit) \o TruncationMarker
       ELSE message

truncate_message(message, channel_type) ==
    LET limit == limit_of(channel_type)
    IN IF limit # None /\ Len(message) > limit
       THEN SubSeq(message, 1, limit - MarkerRoom) \o TruncationMarker
       ELSE message

MaxMessageLen == 20   \* characters of a rendered message
\* Rendered messages of every length, of one letter or of two in turn, for
\* every channel type and one that MESSAGE_LIMITS does not know.
TruncateInputs ==
    [fn : {"truncate"},
     message : {[k \in 1..n |-> IF k % m = 0 THEN "y" ELSE "x"] :
                    n \in 0..MaxMessageLen, m \in {2, MaxMessageLen + 1}},
     channel_type : DOMAIN MESSAGE_LIMITS \cup {"email"}]

MaxBatchLen == 4   \* queries handed to one evaluate_queries call
\* A batch of ingested queries whose domains hold an "a", a "b", both or
\* neither, and the enabled rules as the SELECT returns them: rule 1 with
\* the pattern "a", rule 2 with "b", in either order, one of them or none.
EvaluateInputs ==
    [fn : {"evaluate"},
     queries : UNION {[1..n -> {[domain |-> d, client_ip |-> <<"1">>,
                                 client_hostname |-> NoValue] :
                                    d \in {<<"a">>, <<"b">>, <<"a", "b">>, <<"c">>}}] :
                          n \in 0..MaxBatchLen},
     rules : {<<>>, <<RuleOf(1, <<"a">>)>>,
              <<RuleOf(1, <<"a">>), RuleOf(2, <<"b">>)>>,
              <<RuleOf(2, <<"b">>), RuleOf(1, <<"a">>)>>}]

\* client_display = q.client_hostname or q.client_ip
client_display(q) ==
    IF Falsy(q.client_hostname) THEN q.client_ip ELSE q.client_hostname
\* f"{q.domain} - {client_display}"
query_line(q) == q.domain \o <<" ", "-", " ">> \o client_display(q)

\* _build_batch_context that includes every match whatever dedupe is.
build_batch_context_all(queries, dedupe) ==
    LET positions == [k \in 1..Len(queries) |-> k]
        with_domain == SelectSeq(positions, LAMBDA k : ~Falsy(queries[k].domain))
    IN [count |-> Len(queries),
        query_list |-> join([k \in 1..Len(queries) |-> query_line(queries[k])], <<"\n">>),
        domains |-> join([i \in 1..Len(with_domain) |-> queries[with_domain[i]].domain],
                         <<",", " ">>),
        clients |-> join([k \in 1..Len(queries) |-> client_display(queries[k])],
                         <<",", " ">>)]

\* The batch fields of the AlertContext _build_batch_context returns.  With
\* dedupe, an entry is appended when its pair (its domain, its client) is
\* not in the seen set, that is, was not met at an earlier position.
build_batch_context(queries, dedupe) ==
    LET positions == [k \in 1..Len(queries) |-> k]
        pair(k) == <<queries[k].domain, client_display(queries[k])>>
        new_pair(k) == \A j \in 1..(k - 1) : pair(j) # pair(k)
        new_domain(k) == \A j \in 1..(k - 1) : queries[j].domain # queries[k].domain
        new_client(k) ==
            \A j \in 1..(k - 1) : client_display(queries[j]) # client_display(queries[k])
        lines == IF dedupe THEN SelectSeq(positions, new_pair) ELSE positions
        with_domain ==
            SelectSeq(positions,
                      LAMBDA k : ~Falsy(queries[k].domain) /\ (dedupe => new_domain(k)))
        with_client ==
            IF dedupe
            THEN SelectSeq(positions,
                           LAMBDA k : ~Falsy(client_display(queries[k])) /\ new_client(k))
            ELSE positions
    IN [count |-> Len(queries),
        query_list |-> join([i \in 1..Len(lines) |-> query_line(queries[lines[i]])],
                            <<"\n">>),
        domains |-> join([i \in 1..Len(with_domain) |-> queries[with_domain[i]].domain],
                         <<",", " ">>),
        clients |-> join([i \in 1..Len(with_client) |-> client_display(queries[with_client[i]])],
                         <<",", " ">>)]

MaxContextLen == 3   \* matched queries of one rule's batch
\* The batch of a rule (never empty) and the channel's dedupe_domains option;
\* ingestion stores "" for a query without a domain and None or "" for a
\* client without a name.
ContextInputs ==
    [fn : {"context"},
     queries : UNION {[1..n -> [domain : {<<"a">>, <<"b">>, <<>>},
                                client_ip : {<<"1">>, <<"2">>},
                                client_hostname : {NoValue, <<>>, <<"h">>}]] :
                          n \in 1..MaxContextLen},
     dedupe : BOOLEAN]

NotReturned == [returned |-> FALSE]

InitPure ==
    /\ BatchIdle
    /\ alert_rules = <<>>
    /\ pattern_cache = <<>>
    /\ ev = <<>>
    /\ up = <<>>
    /\ op = <<>>
    /\ eval_in \in CompileInputs \cup ExcludeInputs \cup TruncateInputs
                    \cup EvaluateInputs \cup ContextInputs
    /\ eval_out = NotReturned
    /\ query_log = <<>>
    /\ scan = <<>>

\* _compile_patterns(pattern_string), then the field test on the value:
\* accepts[k] is patterns[k].fullmatch(value).
CompileAndMatch ==
    /\ eval_in.fn = "compile" /\ ~eval_out.returned
    /\ LET patterns == compile_patterns(eval_in.pattern_string)
       IN eval_out' = [returned |-> TRUE,
                       patterns |-> patterns,
                       accepts |-> [k \in 1..Len(patterns) |->
                                       fullmatch(patterns[k], eval_in.value)],
                       matches |-> matches_compiled_patterns(eval_in.value, patterns)]
    /\ UNCHANGED <<batch_vars, scan_vars, alert_rules, pattern_cache, ev, up, op, eval_in>>

\* _should_exclude(domain, exclude_domains) for the three texts.
ExcludeForms ==
    /\ eval_in.fn = "exclude" /\ ~eval_out.returned
    /\ eval_out' = [returned |-> TRUE,
                    comma |-> should_exclude(eval_in.domain, CommaForm(eval_in.terms)),
                    json |-> should_exclude(eval_in.domain, JsonForm(eval_in.terms)),
                    cut |-> should_exclude(eval_in.domain, CutJsonForm(eval_in.terms))]
    /\ UNCHANGED <<batch_vars, scan_vars, alert_rules, pattern_cache, ev, up, op, eval_in>>

\* truncate_message(message, channel.channel_type)
TruncateMessage ==
    /\ eval_in.fn = "truncate" /\ ~eval_out.returned
    /\ eval_out' = [returned |-> TRUE,
                    message |-> truncate_message(eval_in.message, eval_in.channel_type)]
    /\ UNCHANGED <<batch_vars, scan_vars, alert_rules, pattern_cache, ev, up, op, eval_in>>

\* evaluate_queries(queries) on a healthy store with the cache empty: no
\* queries or no rules give []; else the triples are fetched and the
\* matches collected.
EvaluateQueries ==
    /\ eval_in.fn = "evaluate" /\ ~eval_out.returned
    /\ LET rules == eval_in.rules
           cached_patterns == fetch_patterns(rules, <<>>, <<>>).cached_patterns
       IN eval_out' = [returned |-> TRUE,
                       matches |-> IF eval_in.queries = <<>> \/ rules = <<>> THEN <<>>
                                   ELSE collect_matches(eval_in.queries, rules,
                                                        cached_patterns, <<>>)]
    /\ UNCHANGED <<batch_vars, scan_vars, alert_rules, pattern_cache, ev, up, op, eval_in>>

\* context = self._build_batch_context(queries, rule, dedupe=dedupe)
BuildBatchContext ==
    /\ eval_in.fn = "context" /\ ~eval_out.returned
    /\ eval_out' = [returned |-> TRUE,
                    context |-> build_batch_context(eval_in.queries, eval_in.dedupe)]
    /\ UNCHANGED <<batch_vars, scan_vars, alert_rules, pattern_cache, ev, up, op, eval_in>>

NextPure ==
    \/ CompileAndMatch
    \/ ExcludeForms
    \/ TruncateMessage
    \/ EvaluateQueries
    \/ BuildBatchContext

SpecPure == InitPure /\ [][NextPure]_vars

\* ------------------------------------------- check_recent_queries
\* The limits of the scan, scaled down: the source has batch_size = 500,
\* max_queries = 10000 (20 pages) and max_matches = 1000.
batch_size == 2
MaxPages == 2
max_queries == MaxPages * batch_size
max_scan_matches == 3
MaxRows == 5      \* rows of the queries table
MaxInserts == 2   \* rows ingested while a scan runs

\* A row of the queries table: its domain matches the rule's pattern "a" or
\* does not.
QueryRow(timestamp, domain) ==
    [timestamp |-> timestamp, domain |-> <<domain>>, client_ip |-> <<"1">>,
     client_hostname |-> NoValue]

\* select(Query).where(timestamp >= since).order_by(timestamp.desc())
\*              .limit(batch_size).offset(offset)
select_page(since, offset) ==
    LET recent == {k \in 1..Len(query_log) : query_log[k].timestamp >= since}
        newest_first == SortBy(recent, [k \in recent |-> 0 - query_log[k].timestamp])
        last == IF offset + batch_size < Len(newest_first)
                THEN offset + batch_size ELSE Len(newest_first)
    IN [i \in 1..(IF last > offset THEN last - offset ELSE 0) |->
            query_log[newest_first[offset + i]]]

\* The inner loop that goes on appending after max_matches is reached.
RECURSIVE scan_page_unbounded(_, _, _, _)
scan_page_unbounded(queries, rules, cached_patterns, matches) ==
    IF queries = <<>> THEN matches
    ELSE LET rule_ids == evaluate_query_against_rules(Head(queries), rules, cached_patterns)
         IN scan_page_unbounded(Tail(queries), rules, cached_patterns,
                IF rule_ids # <<>> THEN Append(matches, <<Head(queries), rule_ids>>)
                ELSE matches)

\* for query in queries: the matches after the page, the loop left once
\* max_matches of them are collected.
RECURSIVE scan_page(_, _, _, _)
scan_page(queries, rules, cached_patterns, matches) ==
    IF queries = <<>> THEN matches
    ELSE LET rule_ids == evaluate_query_against_rules(Head(queries), rules, cached_patterns)
             appended == IF rule_ids # <<>> THEN Append(matches, <<Head(queries), rule_ids>>)
                         ELSE matches
         IN IF rule_ids # <<>> /\ Len(appended) >= max_scan_matches
            THEN appended   \* break
            ELSE scan_page(Tail(queries), rules, cached_patterns, appended)

\* pages is a history variable: the pages fetched, with the offset of each
\* and the numbers of rows ingested since the call and of rule edits served
\* when it was fetched.
NoScan == [pc |-> "rules", since |-> 0, rules |-> <<>>, cached_patterns |-> <<>>,
           matches |-> <<>>, offset |-> 0, queries_processed |-> 0,
           result |-> <<>>, raised |-> FALSE, pages |-> <<>>, inserts |-> 0]

\* The call check_recent_queries(minutes) has been made and awaits the rules
\* SELECT; the table holds rows of distinct timestamps, the oldest of which
\* may lie before `since`; rule 1 is enabled or no rule is; no rule is being
\* edited.
InitScan ==
    /\ BatchIdle
    /\ \E on \in BOOLEAN :
          alert_rules = [r \in Rules |->
                            [RuleOf(r, <<"a">>) EXCEPT !.enabled = (on /\ r = 1)]]
    /\ pattern_cache = <<>>
    /\ ev = <<>> /\ up = NoEdit /\ op = <<>> /\ eval_in = <<>> /\ eval_out = <<>>
    /\ \E n \in 0..MaxRows : \E domains \in [1..n -> {"a", "b"}] :
          query_log = [k \in 1..n |-> QueryRow(k, domains[k])]
    /\ \E since \in {1, 2} : scan = [NoScan EXCEPT !.since = since]

\* The answer to the rules SELECT: without rules the scan returns []; else
\* the triples are fetched through the cache and the loop is entered.
ScanRules ==
    /\ scan.pc = "rules"
    /\ LET rules == SelectSeq([r \in Rules |-> alert_rules[r]], LAMBDA rule : rule.enabled)
           fetched == fetch_patterns(rules, pattern_cache, <<>>)
       IN IF rules = <<>>
          THEN /\ scan' = [scan EXCEPT !.pc = "done"]
               /\ UNCHANGED pattern_cache
          ELSE /\ pattern_cache' = fetched.cache
               /\ scan' = [scan EXCEPT !.pc = "page", !.rules = rules,
                                       !.cached_patterns = fetched.cached_patterns]
    /\ UNCHANGED <<batch_vars, query_log, alert_rules, ev, up, op, eval_in, eval_out>>

\* The triples the page loop goes on fetching: one _get_cached_patterns per
\* enabled rule for every page.
scan_patterns_refetched ==
    fetch_patterns(SelectSeq([r \in Rules |-> alert_rules[r]], LAMBDA rule : rule.enabled),
                   pattern_cache, <<>>).cached_patterns

\* cached_patterns as the page loop hands it to _evaluate_query_against_rules:
\* the dict filled before the loop.
scan_patterns == scan.cached_patterns

\* The answer to a page SELECT: an empty page ends the loop; else the page
\* is evaluated, the counters advance and the loop condition is tested; out
\* of the loop, the matches are returned.
ScanPage ==
    /\ scan.pc = "page"
    /\ LET queries == select_page(scan.since, scan.offset)
           matches == scan_page(queries, scan.rules, scan_patterns, scan.matches)
           queries_processed == scan.queries_processed + Len(queries)
           fetched == [offset |-> scan.offset, queries |-> queries,
                       inserts |-> scan.inserts, edits |-> up.edits]
       IN IF queries = <<>>
          THEN scan' = [scan EXCEPT !.pc = "done", !.result = scan.matches,
                                    !.pages = Append(@, fetched)]
          ELSE IF queries_processed < max_queries /\ Len(matches) < max_scan_matches
          THEN scan' = [scan EXCEPT !.matches = matches,
                                    !.queries_processed = queries_processed,
                                    !.offset = @ + batch_size,
                                    !.pages = Append(@, fetched)]
          ELSE scan' = [scan EXCEPT !.pc = "done",
                                    !.matches = matches,
                                    !.queries_processed = queries_processed,
                                    !.offset = @ + batch_size,
                                    !.result = matches,
                                    !.pages = Append(@, fetched)]
    /\ UNCHANGED <<batch_vars, engine_vars, query_log>>

\* A SELECT raises: except Exception, the scan returns [].
ScanRaise ==
    /\ scan.pc \in {"rules", "page"}
    /\ scan' = [scan EXCEPT !.pc = "done", !.result = <<>>, !.raised = TRUE]
    /\ UNCHANGED <<batch_vars, engine_vars, query_log>>

\* The ingestion stores a new query while the scan awaits a SELECT.
IngestRow(domain) ==
    /\ scan.pc \in {"rules", "page"}
    /\ scan.inserts < MaxInserts
    /\ Len(query_log) < MaxRows
    /\ query_log' = Append(query_log, QueryRow(Len(query_log) + 1, domain))
    /\ scan' = [scan EXCEPT !.inserts = @ + 1]
    /\ UNCHANGED <<batch_vars, engine_vars>>

\* A scan, with the ingestion and edits of rule 1 (update_alert_rule, its
\* commit and its invalidate_cache) going on beside it.
NextScan ==
    \/ ScanRules
    \/ ScanPage
    \/ ScanRaise
    \/ \E domain \in {"a", "b"} : IngestRow(domain)
    \/ \E p \in PatternEdits : UpBegin(1, p)
    \/ UpSelected
    \/ UpCommit
    \/ UpRefresh
    \/ UpInvalidate

\* Every SELECT of the scan ends: it raises or it answers.
SpecScan ==
    /\ InitScan /\ [][NextScan]_vars
    /\ WF_vars(ScanRaise \/ ScanRules \/ ScanPage)

\* ---------------------------------------------------------- properties
\* The coroutine is between try_record_alert's history check and its insert.
InCheckAndInsert(t) == pc[t] \in {"tr_select", "tr_commit"}

\* try_record_alert was called and has returned.
Returned(t) ==
    /\ loc[t].call # "none"
    /\ pc[t] \in {"sb_select", "sb_send", "sb_commit", "update_status",
                  "done"}

\* The history rows of a rule, by position.
RowsOf(rule_id) ==
    {k \in 1..Len(history) : history[k].alert_rule_id = rule_id}

\* C1: for a rule with a cooldown of c > 0 minutes, any two of its history
\* rows have trigger times more than c minutes apart, however the concurrent
\* try_record_alert calls for this and other rules interleave.
C1_RowsApart ==
    \A r \in Rules :
        cooldown[r] > 0 =>
            \A j, k \in RowsOf(r) :
                j < k => history[k].triggered_at - history[j].triggered_at
                            > cooldown[r]

\* C2: of the concurrent try_record_alert calls for one rule with a
\* cooldown, issued while no history row lay inside its window, exactly one
\* returns an id and the others return None: never none of them, and two
\* only when their rows lie more than the cooldown apart (the later call
\* then ran in a window of its own).
C2_ExactlyOneId ==
    \A t, u \in Tasks :
        ( /\ t # u
          /\ Returned(t) /\ Returned(u)
          /\ batch[t].rule_id = batch[u].rule_id
          /\ cooldown[batch[t].rule_id] > 0
          /\ loc[t].call = "open" /\ loc[u].call = "open" )
        => LET a == loc[t].alert_history_id
               b == loc[u].alert_history_id
           IN  /\ a # None \/ b # None
               /\ (a # None /\ b # None) =>
                    \/ history[a].triggered_at - history[b].triggered_at
                            > cooldown[batch[t].rule_id]
                    \/ history[b].triggered_at - history[a].triggered_at
                            > cooldown[batch[t].rule_id]

\* C3: no two coroutines are between the history check and the insert for
\* the same rule at the same time, also when the lock registry is full and
\* the entry of a held lock is evicted.
C3_OneInCheckAndInsert ==
    \A t, u \in Tasks :
        (t # u /\ InCheckAndInsert(t) /\ InCheckAndInsert(u))
            => batch[t].rule_id # batch[u].rule_id

\* The storage error f was raised in the run its coroutine is still in.
Current(f) == pc[f.task] # "idle" /\ runs[f.task[1]] = f.run

\* C4: a storage error during the history check of a cooldown decision opens
\* the gate: after one in the pre-check the coroutine goes on to
\* try_record_alert, after one in try_record_alert's own check the alert is
\* recorded and goes on to notification.
C4_CheckFailsOpen ==
    \A n \in 1..Len(faults) :
        LET f == faults[n]
        IN  (Current(f) /\ pc[f.task] = "done") =>
                /\ f.where = "is_in_cooldown" => loc[f.task].call # "none"
                /\ f.where = "tr_select" =>
                        loc[f.task].alert_history_id # None

Done(t) == pc[t] = "done"

\* The run of ingest_and_alert a coroutine belongs to.
RunOf(t) == <<t[1], runs[t[1]]>>

\* The history rows a coroutine's run created for its rule.
Created(t) ==
    {k \in RowsOf(batch[t].rule_id) : history[k].run = RunOf(t)}

InDispatch(t) == pc[t] \in {"sb_select", "sb_send", "sb_commit"}

\* A row of the rule that another run created lies inside the window now.
Suppressed(t) ==
    \E k \in RowsOf(batch[t].rule_id) :
        /\ history[k].run # RunOf(t)
        /\ history[k].triggered_at >= now - cooldown[batch[t].rule_id]

\* C5: for a rule with a cooldown, a batch that starts with the gate open
\* creates exactly one history row and sends one message to each enabled
\* channel; a batch processed while an earlier row is still inside the
\* window creates no row and sends nothing.
C5_FirstAlertsSecondSilent ==
    \A t \in Tasks :
        (Done(t) /\ cooldown[batch[t].rule_id] > 0) =>
            /\ batch[t].gate_open =>
                /\ Cardinality(Created(t)) = 1
                /\ \A c \in Channels :
                      loc[t].sends[c] = IF c \in enabled THEN 1 ELSE 0
            /\ Suppressed(t) =>
                /\ Created(t) = {}
                /\ \A c \in Channels : loc[t].sends[c] = 0

\* C5 witness: a batch finished silent behind an earlier row of its rule
\* whose batch had reached every channel.
C5_Witness ==
    \E t \in Tasks :
        /\ Done(t) /\ cooldown[batch[t].rule_id] > 0
        /\ enabled = Channels
        /\ Created(t) = {}
        /\ \A c \in Channels : loc[t].sends[c] = 0
        /\ \E k \in RowsOf(batch[t].rule_id) :
              /\ history[k].run # RunOf(t)
              /\ history[k].triggered_at >= now - cooldown[batch[t].rule_id]
              /\ history[k].notification_sent

\* C6: in one pass the matches are grouped by rule before any cooldown
\* decision (one coroutine per rule, holding all its queries), and a rule
\* gets at most one history row and one message per enabled channel in the
\* pass, however many queries matched it.
C6_OneAlertPerRulePerPass ==
    /\ \A t, u \in Tasks :
          (t # u /\ t[1] = u[1] /\ pc[t] # "idle" /\ pc[u] # "idle")
              => batch[t].rule_id # batch[u].rule_id
    /\ \A t \in Tasks :
          pc[t] # "idle" =>
              /\ Len(batch[t].queries) = MaxQueries
              /\ Cardinality(Created(t)) <= 1
              /\ \A c \in Channels : loc[t].sends[c] <= 1
    /\ \A j, k \in 1..Len(history) :
          (j < k /\ history[j].run = history[k].run)
              => history[j].alert_rule_id # history[k].alert_rule_id

\* C6 witness: a batch of several queries ended with one row and one message
\* on a channel.
C6_Witness ==
    \E t \in Tasks :
        /\ Done(t)
        /\ Len(batch[t].queries) > 1
        /\ Cardinality(Created(t)) = 1
        /\ \E c \in Channels : loc[t].sends[c] = 1

\* C7: the history row of an alert is stored, with notification_sent =
\* false, before the first channel send starts; nothing is sent for a batch
\* that has no row.
C7_RowBeforeSend ==
    \A t \in Tasks :
        (InDispatch(t) \/ \E c \in Channels : loc[t].sends[c] > 0) =>
            /\ loc[t].alert_history_id \in 1..Len(history)
            /\ history[loc[t].alert_history_id].alert_rule_id
                    = batch[t].rule_id
            /\ history[loc[t].alert_history_id].run = RunOf(t)
            /\ InDispatch(t) =>
                    ~history[loc[t].alert_history_id].notification_sent

\* C7 witness: a batch is in the channel loop, one message sent.
C7_Witness ==
    \E t \in Tasks :
        /\ pc[t] = "sb_send"
        /\ \E c \in Channels : loc[t].sends[c] = 1
        /\ ~history[loc[t].alert_history_id].notification_sent

\* C8: after all enabled channels have been attempted, the row's
\* notification_sent is true exactly when at least one channel succeeded:
\* false when all failed or none is enabled.
C8_SentIffAnySucceeded ==
    \A t \in Tasks :
        (Done(t) /\ loc[t].alert_history_id # None) =>
            /\ DOMAIN loc[t].results = enabled
            /\ history[loc[t].alert_history_id].notification_sent
                    = (\E c \in enabled : loc[t].results[c])

\* C8 witness: one channel failed, another succeeded, the row says sent.
C8_Witness ==
    \E t \in Tasks :
        /\ Done(t) /\ loc[t].alert_history_id # None
        /\ \E c, d \in enabled : ~loc[t].results[c] /\ loc[t].results[d]
        /\ history[loc[t].alert_history_id].notification_sent

\* C9: when every enabled channel fails, the row is updated with
\* notification_sent = false and its error column holds the first error a
\* channel reported.
C9_FirstErrorRecorded ==
    \A t \in Tasks :
        ( /\ Done(t) /\ loc[t].alert_history_id # None
          /\ enabled # {}
          /\ \A c \in DOMAIN loc[t].results : ~loc[t].results[c] )
        => /\ ~history[loc[t].alert_history_id].notification_sent
           /\ history[loc[t].alert_history_id].notification_error
                    = loc[t].first_error

\* C10: a successful attempt sets the channel's consecutive_failures to 0
\* and clears last_error and last_error_at, a failed one (a failed result or
\* an exception) adds one and sets both; so, after dispatches that ran one
\* after another, consecutive_failures is the number of failed attempts
\* since the channel's last successful one.
C10_FailuresSinceSuccess ==
    (attempts.serial /\ \A t \in Tasks : pc[t] \notin {"sb_send", "sb_commit"})
    => \A c \in Channels :
          /\ channel[c].consecutive_failures = attempts.streak[c]
          /\ attempts.streak[c] = 0 =>
                /\ channel[c].last_error = NoError
                /\ channel[c].last_error_at = NoTime
          /\ attempts.streak[c] > 0 =>
                /\ channel[c].last_error # NoError
                /\ channel[c].last_error_at # NoTime

\* C10 witness: a channel succeeded once and then failed twice.
C10_Witness ==
    /\ attempts.serial
    /\ \A t \in Tasks : pc[t] \notin {"sb_send", "sb_commit"}
    /\ \E c \in Channels :
          /\ attempts.streak[c] = 2
          /\ channel[c].last_success_at # NoTime
\* send_batch_alert has gone through its channel loop.
Dispatched(t) ==
    \/ pc[t] \in {"sb_commit", "update_status"}
    \/ Done(t) /\ loc[t].alert_history_id # None

\* C11: send_batch_alert attempts every enabled channel exactly once per
\* batch whatever the other channels' outcomes (a failed result, an
\* exception while rendering or sending); its result map has one entry for
\* every enabled channel, and no such failure is raised to the caller.
C11_EveryChannelAttemptedOnce ==
    \A t \in Tasks :
        /\ pc[t] = "sb_send" =>
              \A k \in 1..Len(loc[t].channels) :
                  /\ loc[t].sends[loc[t].channels[k]]
                        = IF k < loc[t].i THEN 1 ELSE 0
                  /\ loc[t].channels[k] \in DOMAIN loc[t].results
                        <=> k < loc[t].i
        /\ Dispatched(t) =>
              /\ DOMAIN loc[t].results = enabled
              /\ \A c \in Channels :
                    loc[t].sends[c] = IF c \in enabled THEN 1 ELSE 0

\* C11 witness: the first channel raised, the second was still attempted
\* and succeeded, and the batch went on to its status update.
C11_Witness ==
    \E t \in Tasks :
        /\ Done(t) /\ loc[t].alert_history_id # None
        /\ loc[t].first_error = ErrorOf(1, "raised")
        /\ 2 \in DOMAIN loc[t].results /\ loc[t].results[2]
        /\ loc[t].sends[2] = 1
\* The step is a storage error raised in coroutine t.
FaultIn(t) ==
    /\ Len(faults') = Len(faults) + 1
    /\ faults'[Len(faults')].task = t

\* C12: an exception in one rule's batch (rule lookup, cooldown check,
\* record, send or status update) stays at that rule's boundary: it changes
\* nothing for the other coroutines, each of which still runs to completion,
\* and the pass ends through gather, not by raising to the scheduler.
C12_RuleBoundary ==
    /\ [][\A t \in Tasks :
            FaultIn(t) =>
                /\ pc'[t] # "idle"
                /\ \A u \in Tasks \ {t} :
                      /\ pc'[u] = pc[u]
                      /\ loc'[u] = loc[u]
                      /\ batch'[u] = batch[u]]_vars
    /\ \A t \in Tasks : (pc[t] \notin {"idle", "done"}) ~> Done(t)
    /\ \A p \in Passes : (~PassIdle(p)) ~> PassIdle(p)

\* C12 witness: one coroutine of a pass ended by an exception raised out of
\* send_batch_alert, its sibling went on to record and dispatch its alert.
C12_Witness ==
    \E t, u \in Tasks :
        /\ t # u /\ t[1] = u[1]
        /\ Done(t) /\ Done(u)
        /\ \E n \in 1..Len(faults) :
              /\ faults[n].task = t /\ Current(faults[n])
              /\ faults[n].where \in {"sb_select", "sb_commit"}
        /\ loc[u].alert_history_id # None
        /\ DOMAIN loc[u].results = enabled
\* The exclusion terms a rule's exclude_domains text lists: in the comma form
\* the non-blank stretches between commas, trimmed; in the JSON form the
\* strings of the array; none when the JSON does not parse.
IsJsonForm(text) == \E k \in 1..Len(text) :
    text[k] = "[" /\ \A j \in 1..(k - 1) : text[j] \in Whitespace
CommaTerms(text) ==
    {SubSeq(text, i, j) : <<i, j>> \in
        {ij \in (1..Len(text)) \X (1..Len(text)) :
            /\ ij[1] <= ij[2]
            /\ \A k \in ij[1]..ij[2] : text[k] # ","
            /\ text[ij[1]] \notin Whitespace /\ text[ij[2]] \notin Whitespace
            /\ \A k \in 1..(ij[1] - 1) :
                   (\A m \in k..(ij[1] - 1) : text[m] # ",") => text[k] \in Whitespace
            /\ \A k \in (ij[2] + 1)..Len(text) :
                   (\A m \in (ij[2] + 1)..k : text[m] # ",") => text[k] \in Whitespace}}
ExclusionTerms(text) ==
    IF Falsy(text) THEN {}
    ELSE IF IsJsonForm(text)
         THEN IF json_loads(text).ok
              THEN {json_loads(text).items[k] : k \in 1..Len(json_loads(text).items)}
              ELSE {}
    ELSE CommaTerms(text)
\* term occurs in domain, letters compared without case.
ContainsFolded(domain, term) ==
    \E off \in 0..(Len(domain) - Len(term)) :
        \A k \in 1..Len(term) : Lower(domain[off + k]) = Lower(term[k])
Reported(id) == \E k \in 1..Len(eval_out.matching_rules) : eval_out.matching_rules[k] = id

\* C19: a query whose domain contains, without regard to case, an exclusion
\* term of a rule is not reported as matching that rule, whatever the rule's
\* three pattern fields are.
C19_ExcludedNeverMatches ==
    eval_out.returned =>
        \A k \in 1..Len(eval_in.rules) :
            LET rule == eval_in.rules[k]
            IN (\E term \in ExclusionTerms(rule.exclude_domains) :
                    ContainsFolded(eval_in.query.domain, term))
               => ~Reported(rule.id)
\* A rule whose patterns accept the query, excluded by a term written in the
\* other case.
C19_Witness ==
    /\ eval_out.returned
    /\ eval_in.rules[1].exclude_domains = <<"[", "\"", "A", "\"", "]">>
    /\ eval_in.rules[1].domain_pattern = <<"*">>
    /\ eval_in.rules[1].client_ip_pattern = NoValue
    /\ eval_in.rules[1].client_hostname_pattern = NoValue
    /\ eval_in.query.domain = <<"b", "a">>
    /\ eval_out.matching_rules = <<>>
\* The query's domain contains none of the rule's exclusion terms.
NotExcluded(query, rule) ==
    \A term \in ExclusionTerms(rule.exclude_domains) : ~ContainsFolded(query.domain, term)
\* Some matcher of the field fully matches the value; an absent value
\* matches nothing.
SomeMatcherAccepts(value, matchers) ==
    /\ value # NoValue
    /\ \E k \in 1..Len(matchers) : fullmatch(matchers[k], value)
\* The three fields as pairs: the query's value, the rule's matchers.
FieldsOf(query, rule) ==
    {<<query.domain, compile_patterns(rule.domain_pattern)>>,
     <<query.client_ip, compile_patterns(rule.client_ip_pattern)>>,
     <<query.client_hostname, compile_patterns(rule.client_hostname_pattern)>>}

\* C20 as stated: a non-excluded query matches a rule exactly when, in each
\* of the three fields, the rule has no matcher or some matcher fully matches
\* the query's value.
C20_MatchIffEveryField ==
    eval_out.returned =>
        \A k \in 1..Len(eval_in.rules) :
            LET rule == eval_in.rules[k]
            IN NotExcluded(eval_in.query, rule) =>
                  (Reported(rule.id) <=>
                      \A f \in FieldsOf(eval_in.query, rule) :
                          f[2] = <<>> \/ SomeMatcherAccepts(f[1], f[2]))

\* C20, amended: a non-excluded query matches a rule exactly when, in each of
\* the three fields, the rule has no matcher or the query's value is not
\* empty and some matcher fully matches it; a rule without any matcher
\* matches every non-excluded query.
C20_MatchIffEveryFieldNonEmpty ==
    eval_out.returned =>
        \A k \in 1..Len(eval_in.rules) :
            LET rule == eval_in.rules[k]
            IN NotExcluded(eval_in.query, rule) =>
                  /\ Reported(rule.id) <=>
                        \A f \in FieldsOf(eval_in.query, rule) :
                            f[2] = <<>> \/ (f[1] # <<>> /\ SomeMatcherAccepts(f[1], f[2]))
                  /\ (\A f \in FieldsOf(eval_in.query, rule) : f[2] = <<>>)
                        => Reported(rule.id)
\* The second of two domain patterns accepts the domain, the client-IP
\* pattern accepts the address, and the rule is reported.
C20_Witness ==
    /\ eval_out.returned
    /\ eval_in.rules[1].domain_pattern = <<"?", ",", "B">>
    /\ eval_in.rules[1].client_ip_pattern = <<"1">>
    /\ eval_in.rules[1].client_hostname_pattern = NoValue
    /\ eval_in.rules[1].exclude_domains = NoValue
    /\ eval_in.query.domain = <<"a", "b">>
    /\ eval_in.query.client_ip = <<"1">>
    /\ eval_out.matching_rules = <<1>>
\* Vocabulary for the two least-recently-used maps: a map is the sequence of
\* its entries, least recently used first.
Ids(map) == {map[k].id : k \in 1..Len(map)}
Pos(map, id) == CHOOSE k \in 1..Len(map) : map[k].id = id
\* The entries of after that before held too are in after as they were in
\* before, and in the same relative order.
OrderKept(before, after) ==
    \A a, b \in 1..Len(after) :
        (after[a].id \in Ids(before) /\ after[b].id \in Ids(before)) =>
            /\ after[a] = before[Pos(before, after[a].id)]
            /\ a < b <=> Pos(before, after[a].id) < Pos(before, after[b].id)
\* id is the most recently used entry of map.
MostRecent(map, id) == map # <<>> /\ map[Len(map)].id = id

\* C14: after invalidate(rule_id) the id has no entry; an entry for an id
\* only ever appears by a get for that id that misses, which compiles the
\* three fields of the rule passed to it, caches the result as the id's entry
\* and returns it.  So the next get after an invalidation is such a miss and
\* cannot return what was cached before.
C14_GetAfterInvalidateRecompiles ==
    [][/\ op'.name = "invalidate" =>
              \A id \in Ids(pattern_cache') : op'.rule.id \notin {id, None}
       /\ \A id \in Ids(pattern_cache') \ Ids(pattern_cache) :
              /\ op'.name = "get" /\ op'.rule.id = id /\ ~op'.hit
       /\ (op'.name = "get" /\ op'.rule.id \notin Ids(pattern_cache)) =>
              /\ op'.patterns = compiled_patterns(op'.rule)
              /\ pattern_cache'[Pos(pattern_cache', op'.rule.id)].patterns = op'.patterns
              /\ ~op'.hit]_vars
\* A get right after the invalidation of its id, for a rule whose pattern
\* changed: it returns the new compilation, not the triple that was dropped.
C14_Witness ==
    /\ op.name = "get" /\ ~op.hit
    /\ op.dropped.id = op.rule.id
    /\ op.dropped.patterns = compiled_patterns(RuleOf(op.rule.id, <<"a">>))
    /\ op.rule.domain_pattern = <<"b">>
    /\ op.patterns = compiled_patterns(op.rule)
    /\ op.patterns # op.dropped.patterns

\* C15: invalidate(rule_id) removes that id's entry and nothing else: the
\* other entries and their relative order stay, and so does the whole lock
\* registry; it changes nothing when the id has no entry.  invalidate()
\* without an id empties the cache and leaves the lock registry as it is.
C15_InvalidateRemovesOnlyThat ==
    [][op'.name = "invalidate" =>
          /\ rule_locks' = rule_locks
          /\ locked' = locked
          /\ IF op'.rule.id = None
             THEN pattern_cache' = <<>>
             ELSE /\ Ids(pattern_cache') = Ids(pattern_cache) \ {op'.rule.id}
                  /\ Len(pattern_cache') = Cardinality(Ids(pattern_cache'))
                  /\ OrderKept(pattern_cache, pattern_cache')
                  /\ op'.rule.id \notin Ids(pattern_cache) => pattern_cache' = pattern_cache]_vars
\* The middle one of three entries was invalidated; the other two are left,
\* in their order, and the lock registry still holds its lock.
C15_Witness ==
    /\ op.name = "invalidate"
    /\ op.dropped.id = 2
    /\ Len(pattern_cache) = 2
    /\ pattern_cache[1].id = 3 /\ pattern_cache[2].id = 1
    /\ rule_locks # <<>>

\* C16: neither map ever holds more than its maximum, whatever calls are made
\* in whatever order; a call that inserts into a full map leaves it full.
C16_BoundedMaps ==
    /\ [](Len(pattern_cache) <= max_pattern_cache /\ Len(rule_locks) <= max_locks)
    /\ [][/\ (op'.name = "get" /\ ~op'.hit /\ Len(pattern_cache) = max_pattern_cache)
                => Len(pattern_cache') = max_pattern_cache
          /\ (op'.name = "get_or_create" /\ ~op'.hit /\ Len(rule_locks) = max_locks)
                => Len(rule_locks') = max_locks
          /\ Cardinality(Ids(pattern_cache')) = Len(pattern_cache')
          /\ Cardinality(Ids(rule_locks')) = Len(rule_locks')]_vars
\* One id more than fits was inserted into the cache while the registry was
\* full as well: the cache holds exactly its maximum.
C16_Witness ==
    /\ op.name = "get" /\ ~op.hit /\ op.evicted # None
    /\ Len(pattern_cache) = max_pattern_cache
    /\ Len(rule_locks) = max_locks

\* C17: a get for a cached id returns the cached triple, whatever the fields
\* of the rule passed are, and makes the id most recently used, the other
\* entries staying in their order; a get for an id that is not cached appends
\* the new triple as most recently used and, if the cache was full, evicts
\* the entry that was least recently used before the call and no other.
C17_GetIsLru ==
    [][op'.name = "get" =>
          LET id == op'.rule.id
          IN /\ MostRecent(pattern_cache', id)
             /\ OrderKept(pattern_cache, SubSeq(pattern_cache', 1, Len(pattern_cache') - 1))
             /\ IF id \in Ids(pattern_cache)
                THEN /\ op'.hit
                     /\ op'.patterns = pattern_cache[Pos(pattern_cache, id)].patterns
                     /\ pattern_cache'[Len(pattern_cache')].patterns = op'.patterns
                     /\ Ids(pattern_cache') = Ids(pattern_cache)
                     /\ op'.evicted = None
                ELSE /\ ~op'.hit
                     /\ pattern_cache'[Len(pattern_cache')].patterns
                            = compiled_patterns(op'.rule)
                     /\ IF Len(pattern_cache) = max_pattern_cache
                        THEN /\ op'.evicted = pattern_cache[1].id
                             /\ Ids(pattern_cache')
                                    = (Ids(pattern_cache) \ {pattern_cache[1].id}) \cup {id}
                        ELSE /\ op'.evicted = None
                             /\ Ids(pattern_cache') = Ids(pattern_cache) \cup {id}]_vars
\* A hit for a rule whose fields no longer compile to the cached triple: the
\* cached triple is returned and the id is the most recently used of three.
C17_Witness ==
    /\ op.name = "get" /\ op.hit
    /\ op.patterns # compiled_patterns(op.rule)
    /\ Len(pattern_cache) = max_pattern_cache
    /\ MostRecent(pattern_cache, op.rule.id)
    /\ pattern_cache[Len(pattern_cache)].patterns = op.patterns

C13_NoStalePatternsAfterUpdate ==
    \A e \in Evaluators : ~ev[e].stale
\* Vocabulary for patterns.  s without its surrounding whitespace:
Trimmed(s) ==
    LET inked == {k \in 1..Len(s) : s[k] \notin Whitespace}
    IN IF inked = {} THEN <<>>
       ELSE SubSeq(s, Min(inked), CHOOSE k \in inked : \A j \in inked : j <= k)
Wildcards(s) == Cardinality({k \in 1..Len(s) : s[k] \in {"*", "?"}})
\* The lengths of the prefixes of value that the first k characters of the
\* glob pattern can stand for.
RECURSIVE GlobReach(_, _, _)
GlobReach(pattern, value, k) ==
    IF k = 0 THEN {0}
    ELSE LET before == GlobReach(pattern, value, k - 1)
         IN IF pattern[k] = "*" THEN {j \in 0..Len(value) : \E i \in before : i <= j}
            ELSE IF pattern[k] = "?" THEN {i + 1 : i \in {j \in before : j < Len(value)}}
            ELSE {i + 1 : i \in {j \in before :
                      j < Len(value) /\ Lower(value[j + 1]) = Lower(pattern[k])}}
\* value matches the glob pattern as a whole, letters compared without case.
Glob(pattern, value) == Len(value) \in GlobReach(pattern, value, Len(pattern))
\* The call compiled a single pattern without a wildcard.
OneBarePattern ==
    /\ eval_in.fn = "compile" /\ eval_out.returned
    /\ Wildcards(eval_in.pattern_string) = 0
    /\ \A k \in 1..Len(eval_in.pattern_string) : eval_in.pattern_string[k] # ","
    /\ Len(eval_out.patterns) = 1

\* C21 as stated: the matcher compiled for a pattern string s without
\* wildcards accepts exactly the strings that contain s, whatever the case.
C21_BareIsContains ==
    OneBarePattern =>
        (eval_out.accepts[1] <=> ContainsFolded(eval_in.value, eval_in.pattern_string))

\* C21, amended: the matcher compiled for a pattern string s without
\* wildcards accepts exactly the strings that contain s without its
\* surrounding whitespace, whatever the case.
C21_BareIsContainsTrimmed ==
    OneBarePattern =>
        (eval_out.accepts[1]
            <=> ContainsFolded(eval_in.value, Trimmed(eval_in.pattern_string)))
\* "B." compiled and matched against "ab.": accepted, in the other case.
C21_Witness ==
    /\ OneBarePattern
    /\ eval_in.pattern_string = <<"B", ".">>
    /\ eval_in.value = <<"a", "b", ".">>
    /\ eval_out.accepts[1] /\ eval_out.matches

KeptPieces(field) ==
    {k \in 1..Len(split(field, ",")) :
        /\ Trimmed(split(field, ",")[k]) # <<>>
        /\ Wildcards(split(field, ",")[k]) <= 10}
\* The pattern a piece is compiled from.
Normalized(piece) ==
    IF Wildcards(piece) = 0 THEN <<"*">> \o Trimmed(piece) \o <<"*">> ELSE Trimmed(piece)

\* C23: the call returns; a pattern with more than ten wildcards gives no
\* matcher and one with exactly ten gives one; the other patterns of the
\* field are compiled as if the skipped ones were not there, and the value is
\* matched against them.
C23_CeilingSkipsOnlyThat ==
    (eval_in.fn = "compile" /\ eval_out.returned) =>
        LET field == eval_in.pattern_string
            kept == KeptPieces(field)
        IN /\ Len(eval_out.patterns) = Cardinality(kept)
           /\ \A k \in kept :
                  LET j == Cardinality({i \in kept : i <= k})
                  IN eval_out.accepts[j]
                         <=> Glob(Normalized(split(field, ",")[k]), eval_in.value)
           /\ kept # {} => (eval_out.matches <=>
                               /\ eval_in.value # <<>>
                               /\ \E j \in 1..Len(eval_out.accepts) : eval_out.accepts[j])
\* Eleven stars beside "a": one matcher, and it accepts "ba".
C23_Witness ==
    /\ eval_in.fn = "compile" /\ eval_out.returned
    /\ eval_in.pattern_string = Stars(11) \o <<",", "a">>
    /\ eval_in.value = <<"b", "a">>
    /\ Len(eval_out.patterns) = 1
    /\ eval_out.matches
\* No pattern of the field is usable: the column is NULL, or every piece is
\* blank or over the wildcard ceiling.
NothingUsable(field) == field = NoValue \/ KeptPieces(field) = {}

\* C30: a field whose patterns are all empty or rejected gets no matcher, and
\* a rule none of whose fields has a usable pattern matches every query that
\* is not excluded.
C30_RejectedFieldMatchesAll ==
    eval_out.returned =>
        \A k \in 1..Len(eval_in.rules) :
            LET rule == eval_in.rules[k]
            IN /\ NothingUsable(rule.domain_pattern)
                      => compile_patterns(rule.domain_pattern) = <<>>
               /\ (/\ NothingUsable(rule.domain_pattern)
                   /\ NothingUsable(rule.client_ip_pattern)
                   /\ NothingUsable(rule.client_hostname_pattern)
                   /\ NotExcluded(eval_in.query, rule))
                  => Reported(rule.id)
\* The only field of the rule is a blank and a pattern of eleven stars; a
\* query for "b" matches it.
C30_Witness ==
    /\ eval_out.returned
    /\ eval_in.rules[1].domain_pattern = <<" ", ",">> \o Stars(11)
    /\ eval_in.rules[1].client_ip_pattern = NoValue
    /\ eval_in.rules[1].client_hostname_pattern = NoValue
    /\ eval_in.rules[1].exclude_domains = NoValue
    /\ eval_in.query.domain = <<"b">>
    /\ eval_out.matching_rules = <<1>>
\* C26: the JSON-array form and the comma form of one list of exclusion terms
\* decide alike for every domain, and a text that starts like a JSON array
\* and does not parse excludes nothing.
C26_FormsAgree ==
    (eval_in.fn = "exclude" /\ eval_out.returned) =>
        /\ eval_out.json = eval_out.comma
        /\ ~eval_out.cut
\* C27: truncate_message returns the message itself when the channel type has
\* no limit or the message is not longer than the limit; otherwise a prefix
\* of the message followed by the truncation marker, not longer than the
\* limit.
C27_TruncateWithinLimit ==
    (eval_in.fn = "truncate" /\ eval_out.returned) =>
        LET unlimited == eval_in.channel_type \in {"webhook", "email"}
            limit == MESSAGE_LIMITS[eval_in.channel_type]
        IN IF unlimited \/ Len(eval_in.message) <= limit
           THEN eval_out.message = eval_in.message
           ELSE /\ Len(eval_out.message) <= limit
                /\ \E n \in 0..Len(eval_in.message) :
                       eval_out.message = SubSeq(eval_in.message, 1, n) \o TruncationMarker
\* A message of 18 characters for a type limited to 17: two characters of
\* it and the marker are returned.
C27_Witness ==
    /\ eval_in.fn = "truncate" /\ eval_out.returned
    /\ eval_in.channel_type = "discord"
    /\ Len(eval_in.message) = MESSAGE_LIMITS.discord + 1
    /\ Len(eval_out.message) = MESSAGE_LIMITS.discord
    /\ SubSeq(eval_out.message, 1, 2) = SubSeq(eval_in.message, 1, 2)
    /\ eval_out.message # eval_in.message
\* Where a coroutine is inside try_record_alert.
InTryRecordAlert == {"wait_lock", "tr_select", "tr_commit"}
NoSends == [c \in Channels |-> 0]

\* C24: with cooldown_minutes = 0 every try_record_alert call on a healthy
\* store ends by inserting a row of its rule with notification_sent = false
\* and returning that row's id, whatever rows the table already holds.
C24_ZeroCooldownAlwaysRecords ==
    [][\A t \in Tasks :
          (/\ pc[t] \in InTryRecordAlert
           /\ pc'[t] \notin InTryRecordAlert
           /\ loc[t].cooldown_minutes = 0)
          => /\ Len(history') = Len(history) + 1
             /\ history'[Len(history')].alert_rule_id = batch[t].rule_id
             /\ ~history'[Len(history')].notification_sent
             /\ loc'[t].alert_history_id = history'[Len(history')].id
             /\ \A k \in 1..Len(history) : history[k].id # loc'[t].alert_history_id]_vars
\* Two rows of the rule without cooldown stored at the same instant, the
\* second one's id returned to the scheduled pass.
C24_Witness ==
    \E t \in Tasks, k \in 1..Len(history) :
        /\ t[1] = ScheduledPass
        /\ batch[t].rule_id \in Rules
        /\ cooldown[batch[t].rule_id] = 0
        /\ loc[t].alert_history_id = history[k].id
        /\ k > 1
        /\ history[k].alert_rule_id = batch[t].rule_id
        /\ history[k - 1].alert_rule_id = batch[t].rule_id
        /\ history[k - 1].triggered_at = history[k].triggered_at

\* C29: a history row inside the window closes the gate whether or not its
\* notification went out: a gate check that finds a row of the rule with
\* notification_sent = false inside its window ends the batch, which stores
\* no row and has sent nothing.
C29_FailedRowClosesGate ==
    [][\A t \in Tasks :
          (/\ pc[t] \in {"is_in_cooldown", "tr_select"}
           /\ pc'[t] # pc[t]
           /\ \E k \in 1..Len(history) :
                 /\ history[k].alert_rule_id = batch[t].rule_id
                 /\ ~history[k].notification_sent
                 /\ history[k].triggered_at >= loc[t].cooldown_start)
          => /\ pc'[t] = "done"
             /\ history' = history
             /\ loc'[t].alert_history_id = None
             /\ loc'[t].sends = NoSends]_vars
\* The initial pass stored a row of rule 1 and every enabled channel failed;
\* the scheduled pass, inside the cooldown, ended its batch of rule 1 with
\* no row and no send.
C29_Witness ==
    \E t \in Tasks, k \in 1..Len(history) :
        /\ enabled = Channels
        /\ \A c \in Channels : attempts.streak[c] >= 1
        /\ history[k].alert_rule_id = 1
        /\ history[k].run[1] = InitialPass
        /\ ~history[k].notification_sent
        /\ t[1] = ScheduledPass
        /\ batch[t].rule_id = 1
        /\ pc[t] = "done"
        /\ loc[t].alert_history_id = None
        /\ loc[t].sends = NoSends
        /\ now - history[k].triggered_at <= cooldown[1]
        /\ \A j \in 1..Len(history) : history[j].alert_rule_id = 1 => j = k
\* The lock a coroutine holds is no longer the registry's lock of any rule.
HoldsEvictedLock(t) ==
    /\ pc[t] \in {"tr_select", "tr_commit"}
    /\ \A k \in 1..Len(rule_locks) : rule_locks[k].lock # loc[t].rule_lock

\* C25: under fair scheduling on a healthy store every try_record_alert call
\* returns; a call whose check under the lock finds the gate open stores its
\* row and returns the id; and after a call made while the gate was open a
\* row of the rule is on record, its own or the one a concurrent call of the
\* rule stored first.
C25_CallsReturnAndRecord ==
    \A t \in Tasks :
        /\ (pc[t] \in InTryRecordAlert) ~> (pc[t] \notin InTryRecordAlert)
        /\ (pc[t] = "tr_commit") ~>
              (/\ loc[t].alert_history_id # None
               /\ \E k \in 1..Len(history) :
                     /\ history[k].id = loc[t].alert_history_id
                     /\ history[k].alert_rule_id = batch[t].rule_id)
        /\ (pc[t] \in InTryRecordAlert /\ loc[t].call = "open") ~>
              (\/ loc[t].alert_history_id # None
               \/ \E k \in 1..Len(history) :
                     history[k].alert_rule_id = batch[t].rule_id)
\* One coroutine holds a lock whose registry entry was evicted while another
\* waits for a held lock.
C25_Witness ==
    \E t \in Tasks, u \in Tasks :
        /\ HoldsEvictedLock(t)
        /\ pc[u] = "wait_lock"
        /\ locked[loc[u].rule_lock]
\* The rows of a page run from newer to older.
NewestFirst(queries) ==
    \A i \in 1..Len(queries), j \in 1..Len(queries) :
        i < j => queries[i].timestamp > queries[j].timestamp
RECURSIVE RowsIn(_)
RowsIn(pages) ==
    IF pages = <<>> THEN 0 ELSE Len(Head(pages).queries) + RowsIn(Tail(pages))

ScanWithinBounds ==
    /\ scan.queries_processed <= max_queries
    /\ scan.queries_processed = RowsIn(scan.pages)
    /\ Len(scan.matches) <= max_scan_matches
    /\ Len(scan.result) <= max_scan_matches
    /\ \A k \in 1..Len(scan.pages) :
          /\ scan.pages[k].offset = (k - 1) * batch_size
          /\ Len(scan.pages[k].queries) <= batch_size
          /\ NewestFirst(scan.pages[k].queries)
          /\ \A i \in 1..Len(scan.pages[k].queries) :
                scan.pages[k].queries[i].timestamp >= scan.since
          /\ (k > 1 /\ scan.pages[k].inserts = scan.pages[k - 1].inserts) =>
                \* no row was ingested between the two pages
                /\ Len(scan.pages[k - 1].queries) >= 1
                /\ scan.pages[k].queries # <<>>
                      => Len(scan.pages[k - 1].queries) = batch_size
                /\ \A i \in 1..Len(scan.pages[k].queries) :
                      scan.pages[k].queries[i].timestamp
                          < scan.pages[k - 1].queries[batch_size].timestamp
    /\ (scan.queries_processed >= max_queries \/ Len(scan.matches) >= max_scan_matches)
          => /\ scan.pc = "done"
             /\ ~scan.raised
             /\ scan.result = scan.matches

Absent(value) == value = NoValue \/ value = <<>>

\* C36: a query whose value for a field is absent or empty matches no rule
\* that has a compiled matcher for that field, whatever the matcher is.
C36_AbsentValueNeverMatches ==
    eval_out.returned =>
        \A k \in 1..Len(eval_in.rules) :
            (\E f \in FieldsOf(eval_in.query, eval_in.rules[k]) :
                 Absent(f[1]) /\ f[2] # <<>>)
            => ~Reported(eval_in.rules[k].id)
\* A query without a client hostname against a rule whose only pattern is
\* the hostname pattern `*`: nothing is reported.
C36_Witness ==
    /\ eval_out.returned
    /\ eval_in.query.client_hostname = NoValue
    /\ eval_in.rules[1].client_hostname_pattern = <<"*">>
    /\ eval_in.rules[1].domain_pattern = NoValue
    /\ eval_in.rules[1].client_ip_pattern = NoValue
    /\ eval_in.rules[1].exclude_domains = NoValue
    /\ eval_out.matching_rules = <<>>
\* The ids of the rules of the list whose pattern the domain contains, in
\* list order (the rules of the batches have one bare domain pattern each).
MatchingIds(query, rules) ==
    LET hit == SelectSeq(rules, LAMBDA rule : ContainsFolded(query.domain, rule.domain_pattern))
    IN [k \in 1..Len(hit) |-> hit[k].id]
\* The positions of the queries some rule matches, ascending.
MatchingPositions(queries, rules) ==
    SortBy({i \in 1..Len(queries) : MatchingIds(queries[i], rules) # <<>>},
           [i \in 1..Len(queries) |-> i])

\* C37: evaluate_queries returns at most max_matches entries: the first
\* matching queries of the input in input order, each with the non-empty
\* list of its matching rule ids in rule order; a rule matched only by
\* queries after the cap appears in no entry.
C37_FirstMatchesUpToCap ==
    (eval_in.fn = "evaluate" /\ eval_out.returned) =>
        LET positions == MatchingPositions(eval_in.queries, eval_in.rules)
            matches == eval_out.matches
        IN /\ Len(matches) <= max_matches
           /\ Len(matches) = IF Len(positions) < max_matches
                             THEN Len(positions) ELSE max_matches
           /\ \A j \in 1..Len(matches) :
                 /\ matches[j][1] = eval_in.queries[positions[j]]
                 /\ matches[j][2] = MatchingIds(eval_in.queries[positions[j]], eval_in.rules)
                 /\ matches[j][2] # <<>>
           /\ \A k \in 1..Len(eval_in.rules) :
                 (\A j \in 1..Len(positions) :
                      (\E n \in 1..Len(MatchingIds(eval_in.queries[positions[j]], eval_in.rules)) :
                           MatchingIds(eval_in.queries[positions[j]], eval_in.rules)[n]
                               = eval_in.rules[k].id)
                      => j > max_matches)
                 => \A j \in 1..Len(matches) : \A n \in 1..Len(matches[j][2]) :
                        matches[j][2][n] # eval_in.rules[k].id
\* More matching queries than the cap: rule 2 is matched only by a query
\* after the cap and is in no entry.
C37_Witness ==
    /\ eval_in.fn = "evaluate" /\ eval_out.returned
    /\ Len(eval_in.rules) = 2
    /\ Len(eval_in.queries) = max_matches + 1
    /\ \A i \in 1..max_matches : eval_in.queries[i].domain = <<"a">>
    /\ eval_in.queries[max_matches + 1].domain = <<"b">>
    /\ Len(eval_out.matches) = max_matches
    /\ \A j \in 1..Len(eval_out.matches) : eval_out.matches[j][2] = <<1>>
\* C38: in one scan no stored query is fetched on two pages and none is
\* reported twice (the rows of the table have distinct timestamps).
C38_EachQueryOnce ==
    /\ \A k, l \in 1..Len(scan.pages) :
          \A i \in 1..Len(scan.pages[k].queries), j \in 1..Len(scan.pages[l].queries) :
              scan.pages[k].queries[i] = scan.pages[l].queries[j] => k = l
    /\ \A i, j \in 1..Len(scan.matches) :
          scan.matches[i][1] = scan.matches[j][1] => i = j
\* The coroutine is deciding on its rule's cooldown: between the rule lookup
\* and the end of try_record_alert.
InCooldownDecision(t) ==
    pc[t] \in {"is_in_cooldown", "lookup_query_id", "wait_lock", "tr_select", "tr_commit"}

\* C35: at most one ingest_and_alert pass is in progress at any time, the
\* initial one included, so no two passes decide on the cooldown of one rule
\* at the same time.
C35_OnePassAtATime ==
    /\ \A p, q \in Passes : (~PassIdle(p) /\ ~PassIdle(q)) => p = q
    /\ \A t, u \in Tasks :
          (/\ InCooldownDecision(t) /\ InCooldownDecision(u)
           /\ batch[t].rule_id = batch[u].rule_id)
          => t[1] = u[1]
\* The run of ingest_and_alert that stored the row has ended.
RunEnded(row) == PassIdle(row.run[1]) \/ runs[row.run[1]] # row.run[2]

\* C31: every history row a pass stores is updated exactly once by that
\* pass (never twice, and once by the time the pass has ended), and the
\* update is made by the row's own batch after one attempt on every enabled
\* channel.
C31_UpdatedOnceAfterAttempts ==
    /\ [](\A k \in 1..Len(history) :
             /\ history[k].updates <= 1
             /\ RunEnded(history[k]) => history[k].updates = 1)
    /\ [][\A k \in 1..Len(history) :
             history'[k] # history[k] =>
                 \E t \in Tasks :
                     /\ pc[t] = "update_status" /\ pc'[t] = "done"
                     /\ loc[t].alert_history_id = history[k].id
                     /\ history[k].run = <<t[1], runs[t[1]]>>
                     /\ \A c \in enabled : loc[t].sends[c] = 1]_vars
\* C34: no health update is lost when the batches of one pass attempt the
\* same channel concurrently: once no dispatch is under way, a channel that
\* never succeeded counts every failed attempt made on it.
C34_NoLostHealthUpdate ==
    (\A t \in Tasks : pc[t] \notin {"sb_send", "sb_commit"})
    => \A c \in Channels :
          channel[c].last_success_at = NoTime
          => channel[c].consecutive_failures = attempts.streak[c]
\* C32: in one invocation the triple of each enabled rule is fetched once,
\* before the first query: the fetch fills cached_patterns with one entry
\* per loaded rule, a page leaves cached_patterns and the cache as they are,
\* and every query of every page is evaluated against the patterns of the
\* rules as loaded, whatever was edited, invalidated or evicted since.
C32_FetchedOncePerInvocation ==
    [][/\ (scan.pc = "rules" /\ scan'.pc = "page") =>
             DOMAIN scan'.cached_patterns = {scan'.rules[k].id : k \in 1..Len(scan'.rules)}
       /\ (scan.pc = "page" /\ Len(scan'.pages) = Len(scan.pages) + 1) =>
             LET queries == scan'.pages[Len(scan'.pages)].queries
                 new == SubSeq(scan'.matches, Len(scan.matches) + 1, Len(scan'.matches))
             IN /\ scan'.cached_patterns = scan.cached_patterns
                /\ pattern_cache' = pattern_cache
                /\ \A j \in 1..Len(new) :
                      /\ new[j][2] = MatchingIds(new[j][1], scan.rules)
                      /\ new[j][2] # <<>>
                /\ \A i \in 1..Len(queries) :
                      MatchingIds(queries[i], scan.rules) # <<>> =>
                          \/ \E j \in 1..Len(new) : new[j][1] = queries[i]
                          \/ Len(scan'.matches) >= max_scan_matches]_vars
\* A scan whose rule was edited from "a" to "b" and dropped from the cache
\* between two pages: the page fetched afterwards holds a row with "a",
\* which is reported, and a row with "b", which is not.
C32_Witness ==
    /\ scan.pc = "done" /\ ~scan.raised
    /\ Len(scan.pages) >= 2
    /\ scan.pages[1].edits = 0
    /\ scan.pages[2].edits = 1
    /\ scan.rules[1].domain_pattern = <<"a">>
    /\ alert_rules[1].domain_pattern = <<"b">>
    /\ ~HasEntry(pattern_cache, 1)
    /\ \E i, j \in 1..Len(scan.pages[2].queries) :
          /\ scan.pages[2].queries[i].domain = <<"a">>
          /\ scan.pages[2].queries[j].domain = <<"b">>
          /\ \E m \in 1..Len(scan.result) : scan.result[m][1] = scan.pages[2].queries[i]
          /\ \A m \in 1..Len(scan.result) : scan.result[m][1] # scan.pages[2].queries[j]
\* The client of a query as a notification shows it: its name, or its
\* address when it has no name.
ClientOf(q) ==
    IF q.client_hostname = NoValue \/ q.client_hostname = <<>> THEN q.client_ip
    ELSE q.client_hostname
\* The distinct values of a list, in the order of their first occurrence.
FirstOccurrences(values) ==
    LET distinct == {values[k] : k \in 1..Len(values)}
    IN SortBy(distinct,
              [v \in distinct |-> Min({k \in 1..Len(values) : values[k] = v})])
PairsOf(queries) == [k \in 1..Len(queries) |-> <<queries[k].domain, ClientOf(queries[k])>>]
DomainsOf(queries) == [k \in 1..Len(queries) |-> queries[k].domain]
ClientsOf(queries) == [k \in 1..Len(queries) |-> ClientOf(queries[k])]
NamedDomainsOf(queries) == SelectSeq(DomainsOf(queries), LAMBDA d : d # <<>>)
LinesOf(pairs) ==
    join([k \in 1..Len(pairs) |-> pairs[k][1] \o <<" ", "-", " ">> \o pairs[k][2]], <<"\n">>)
Listed(values) == join(values, <<",", " ">>)

====
